---------------------------- MODULE Spec2Model ----------------------------
(***************************************************************************)
(* Land-title parsing (app/services/parsing.py, app/api/v1/parsing.py) and *)
(* the boundary traversal (app/api/v1/geometry.py).                        *)
(*                                                                         *)
(* A text is a sequence of tokens.  A token is a string standing for a run *)
(* of characters of one class: a whitespace character (" " or "\n"), one   *)
(* digit, one punctuation character, or a run of letters (a word, or one   *)
(* letter).  Two tokens that follow each other are adjacent in the text,   *)
(* with nothing between them; all whitespace is explicit.  Texts are kept  *)
(* with no two letter tokens adjacent (Norm).  The regular expressions of  *)
(* the source are translated to matchers over tokens: a character class    *)
(* becomes a token class, a literal word a comparison with the lower-cased *)
(* token (re.IGNORECASE), \s* the skipping of whitespace tokens, \b the    *)
(* change between a \w token and a non-\w token.                           *)
(***************************************************************************)
EXTENDS Integers, Sequences, FiniteSets, TLC

VARIABLES
    req,      \* DescriptionRequest.description of the request being served
    shape,    \* how the text of req was put together (what the sender wrote)
    phase,    \* "recv" before the handler ran, "sent" after
    resp,     \* what parse_description answered
    frag,     \* the fragment handed to parse_segment (tokenizer runs)
    fragShape,\* how frag was put together
    fragOut,  \* what parse_segment returned or raised for frag
    payload,  \* geometry Payload: tie_lat, tie_lon, boundaries
    gphase,   \* "loop" while boundaries() runs its loop, "returned" after
    gi,       \* number of legs of payload.boundaries already traversed
    curr,     \* <<curr_lat, curr_lon>> of boundaries()
    out,      \* the list boundaries() is building
    thetas,   \* the azimuths handed to next_point so far
    rng,      \* the state of the generator of the module random
    inv,      \* the invocations of parse_land_title: text, pc, outcome
    doc,      \* the document handed to the segmenter
    docShape, \* how doc was put together
    tdOut,    \* what extract_technical_description_spanning_pages made of doc
    refresh_tokens, \* the rows of the table refresh_tokens, in insertion order
    is_active,      \* users.is_active, by user id
    last,           \* the last request to /auth and the response it got
    loggedOut,      \* history: the jti of the refresh cookies presented to logout
    otp_codes,      \* the rows of the table otp_codes, oldest first
    email_verify_tokens, \* the rows of the table email_verify_tokens, oldest first
    mobile,         \* users.mobile, by user id
    is_verified,    \* users.is_verified, by user id
    acctLast,        \* the last account request and the response it got
    racers,          \* the /refresh requests in flight at once: cookie, position, outcome
    email, \* users.email, by user id
    properties, \* the rows of the table properties, with their boundaries and the number of their images
    property_reports, \* the rows of the table property_reports, oldest first
    files, \* the number of files written to the upload directories
    propLast \* the last request to /properties and the status of its response

vars == <<req, shape, phase, resp, frag, fragShape, fragOut, payload, gphase, gi, curr, out, thetas,
          rng, inv, doc, docShape, tdOut, refresh_tokens, is_active, last, loggedOut,
          otp_codes, email_verify_tokens, mobile, is_verified, acctLast,
          racers,
          email,
          properties, property_reports, files, propLast>>
parseVars == <<req, shape, phase, resp>>
segVars == <<frag, fragShape, fragOut>>
geoVars == <<payload, gphase, gi, curr, out, thetas>>
invVars == <<rng, inv>>
docVars == <<doc, docShape, tdOut>>
authVars == <<refresh_tokens, is_active, last, loggedOut>>
propVars == <<properties, property_reports, files, propLast>>
mailVars == <<email>>
raceVars == <<racers>>
acctVars == <<otp_codes, email_verify_tokens, mobile, is_verified, acctLast>>

\* ------------------------------------------------------------------------
\* Token classes
\* ------------------------------------------------------------------------

\* Python's \s and str.strip(): the whitespace characters of the texts
WS == {" ", "\n"}

\* \d
Digits == {"0", "1", "2", "3", "4", "5", "6", "7", "8", "9"}

DigitSeq == <<"0", "1", "2", "3", "4", "5", "6", "7", "8", "9">>

\* the punctuation characters of the texts; a character outside ASCII is
\* written as a name in angle brackets: the degree sign, the prime, the
\* double prime, the double quote, the em dash
Punct == {";", ".", ",", ":", "-", "=", "(", ")", "'", "#", "/",
          "<deg>", "<prime>", "<dprime>", "<dquote>", "<emdash>"}

\* upper-case letter tokens and their str.lower()
UpperTable ==
    [t \in {"N", "S", "E", "W", "M", "BEGINNING", "AT", "TP", "OWNER", "JUAN", "LOT"} |->
        CASE t = "N" -> "n" [] t = "S" -> "s" [] t = "E" -> "e" [] t = "W" -> "w"
          [] t = "M" -> "m" [] t = "BEGINNING" -> "beginning" [] t = "AT" -> "at"
          [] t = "TP" -> "tp" [] t = "OWNER" -> "owner" [] t = "JUAN" -> "juan"
          [] t = "LOT" -> "lot"]

IsWs(t) == t \in WS
IsDigit(t) == t \in Digits
IsAlpha(t) == t \notin WS /\ t \notin Digits /\ t \notin Punct
\* \w
IsWordChar(t) == IsDigit(t) \/ IsAlpha(t)

\* re.IGNORECASE compares letters by their lower case
Lower(t) == IF t \in DOMAIN UpperTable THEN UpperTable[t] ELSE t

DigitVal(d) == CHOOSE n \in 0..9 : DigitSeq[n + 1] = d

\* ------------------------------------------------------------------------
\* Sequence helpers: the str methods the source uses
\* ------------------------------------------------------------------------

\* absent value (None) is <<>>, a present value v is <<v>>
None == <<>>
Some(v) == <<v>>

Min2(a, b) == IF a <= b THEN a ELSE b

\* s[i:] and s[:j] with 1-based positions: From(s, i) starts at token i
From(s, i) == IF i > Len(s) THEN <<>> ELSE SubSeq(s, i, Len(s))
Upto(s, j) == IF j < 1 THEN <<>> ELSE SubSeq(s, 1, Min2(j, Len(s)))

\* first position >= i holding a token outside cls, Len(s)+1 when none
RECURSIVE SkipIn(_, _, _)
SkipIn(s, i, cls) ==
    IF i > Len(s) \/ s[i] \notin cls THEN i ELSE SkipIn(s, i + 1, cls)

\* \s* from position i
SkipWs(s, i) == SkipIn(s, i, WS)

\* last position <= j holding a token outside cls, 0 when none
RECURSIVE SkipBack(_, _, _)
SkipBack(s, j, cls) ==
    IF j < 1 \/ s[j] \notin cls THEN j ELSE SkipBack(s, j - 1, cls)

\* str.lstrip(chars), str.rstrip(chars), str.strip(chars)
LStripSet(s, cls) == From(s, SkipIn(s, 1, cls))
RStripSet(s, cls) == Upto(s, SkipBack(s, Len(s), cls))
StripSet(s, cls) == RStripSet(LStripSet(s, cls), cls)

\* str.strip(), str.lstrip(), str.rstrip()
Strip(s) == StripSet(s, WS)
LStrip(s) == LStripSet(s, WS)
RStrip(s) == RStripSet(s, WS)

\* `not s.strip()`
IsBlank(s) == \A i \in 1..Len(s) : s[i] \in WS

\* value of a run of digit tokens, int("045") = 45
RECURSIVE DigitsValue(_)
DigitsValue(ds) ==
    IF ds = <<>> THEN 0
    ELSE DigitsValue(Upto(ds, Len(ds) - 1)) * 10 + DigitVal(ds[Len(ds)])

\* s[i] exists and is one of toks, compared without case
TokIs(s, i, toks) == i >= 1 /\ i <= Len(s) /\ Lower(s[i]) \in toks

\* \b at the gap before position i
Boundary(s, i) ==
    LET l == i - 1 >= 1 /\ i - 1 <= Len(s) /\ IsWordChar(s[i - 1])
        r == i >= 1 /\ i <= Len(s) /\ IsWordChar(s[i])
    IN l # r

\* the whole word w stands at position i: \bw\b
WordAt(s, i, w) == TokIs(s, i, {w}) /\ Boundary(s, i) /\ Boundary(s, i + 1)

\* least element of a non-empty set of integers
MinOf(S) == CHOOSE x \in S : \A y \in S : x <= y

\* ------------------------------------------------------------------------
\* Bearing + distance parsing: _BEARING_RX and parse_segment
\* ------------------------------------------------------------------------

\* number of digit tokens from position i on
DigitRun(s, i) == SkipIn(s, i, Digits) - i

\* (?:<deg>|deg(?:ree)?s?\.?|-) at position i: the position after it, 0 when absent
DegWords == {"deg", "degs", "degree", "degrees"}

\* a variant of DegMarkerEnd with the marker optional, as the minute marker is
DegMarkerOptional(s, i) ==
    IF TokIs(s, i, {"<deg>", "-"}) THEN i + 1
    ELSE IF TokIs(s, i, DegWords)
         THEN (IF TokIs(s, i + 1, {"."}) THEN i + 2 ELSE i + 1)
         ELSE i

DegMarkerEnd(s, i) ==
    IF TokIs(s, i, {"<deg>", "-"}) THEN i + 1
    ELSE IF TokIs(s, i, DegWords)
         THEN (IF TokIs(s, i + 1, {"."}) THEN i + 2 ELSE i + 1)
         ELSE 0

\* (?:\'|<prime>|min(?:ute)?s?\.?)? at position i: the position after it
MinWords == {"min", "mins", "minute", "minutes"}
MinMarkerEnd(s, i) ==
    IF TokIs(s, i, {"'", "<prime>"}) THEN i + 1
    ELSE IF TokIs(s, i, MinWords)
         THEN (IF TokIs(s, i + 1, {"."}) THEN i + 2 ELSE i + 1)
         ELSE i

\* (?:\"|<dprime>|sec(?:ond)?s?\.?)? at position i: the position after it
SecWords == {"sec", "secs", "second", "seconds"}
SecMarkerEnd(s, i) ==
    IF TokIs(s, i, {"<dquote>", "<dprime>"}) THEN i + 1
    ELSE IF TokIs(s, i, SecWords)
         THEN (IF TokIs(s, i + 1, {"."}) THEN i + 2 ELSE i + 1)
         ELSE i

\* the seconds group (?: (?P<sec>\d{1,2}(?:\.\d+)?)\s*(?:...)?\s* )? at
\* position i.  The pattern is compiled without re.VERBOSE, so the blanks
\* inside the group are literal: the group needs a blank at i, and one
\* after the \s* that follows the value.  None when the group does not
\* match, else [sec, end].
SecGroupAt(s, i) ==
    LET \* the value ends before b, the \s* after it before c, the marker
        \* before d and the \s* after the marker before e.  \s*(marker)?\s*
        \* then a literal blank: the greedy \s* runs give back one blank when
        \* the run they took ends in one
        EndB(b, c, d, e) ==
            IF e > d /\ s[e - 1] = " " THEN e
            ELSE IF d = c /\ c > b /\ s[c - 1] = " " THEN c
            ELSE 0
        Result(k, b, endB) ==
            IF k < 1 \/ endB = 0 THEN None
            ELSE Some([sec |-> SubSeq(s, i + 1, b - 1), end |-> endB])
        AfterMarker(k, b, c, d) == Result(k, b, EndB(b, c, d, SkipWs(s, d)))
        AfterValue(k, b, c) == AfterMarker(k, b, c, SecMarkerEnd(s, c))
        Fraction(k, a, fr) ==
            AfterValue(k, IF fr > 0 THEN a + 1 + fr ELSE a,
                       SkipWs(s, IF fr > 0 THEN a + 1 + fr ELSE a))
        Whole(k, a) ==
            Fraction(k, a, IF TokIs(s, a, {"."}) /\ DigitRun(s, a + 1) >= 1
                           THEN DigitRun(s, a + 1) ELSE 0)
        Value(k) == Whole(k, i + 1 + k)
    IN IF ~ (i <= Len(s) /\ s[i] = " ") THEN None
       ELSE Value(Min2(DigitRun(s, i + 1), 2))

\* _BEARING_RX anchored at position i: None, or the groups and the end of
\* the match
BearingAt(s, i) ==
    LET \* the degrees are the kd digits from p2, the minutes the km digits
        \* from p6, sg the seconds group, p9 the position after it
        Groups(p2, kd, p6, km, sg, p9, hasEw, p10) ==
            Some([ns      |-> IF Lower(s[i]) = "n" THEN "N" ELSE "S",
                  degrees |-> DigitsValue(SubSeq(s, p2, p2 + kd - 1)),
                  minutes |-> DigitsValue(SubSeq(s, p6, p6 + km - 1)),
                  seconds |-> IF sg = None THEN None ELSE Some(sg[1].sec),
                  ew      |-> IF hasEw
                              THEN Some(IF Lower(s[p9]) = "e" THEN "E" ELSE "W")
                              ELSE None,
                  end     |-> IF TokIs(s, p10, {"."}) THEN p10 + 1 ELSE p10])
        \* (?P<ew>[EW])?\.?
        AtEw(p2, kd, p6, km, sg, p9, hasEw) ==
            Groups(p2, kd, p6, km, sg, p9, hasEw, IF hasEw THEN p9 + 1 ELSE p9)
        AfterSec(p2, kd, p6, km, sg, p9) ==
            AtEw(p2, kd, p6, km, sg, p9, TokIs(s, p9, {"e", "w"}))
        AtSec(p2, kd, p6, km, p8, sg) ==
            AfterSec(p2, kd, p6, km, sg, IF sg = None THEN p8 ELSE sg[1].end)
        AfterMinMarker(p2, kd, p6, km, p8) ==
            AtSec(p2, kd, p6, km, p8, SecGroupAt(s, p8))
        \* (?P<min>\d{1,2})
        AfterMin(p2, kd, p6, km) ==
            IF km < 1 THEN None
            ELSE AfterMinMarker(p2, kd, p6, km,
                                SkipWs(s, MinMarkerEnd(s, SkipWs(s, p6 + km))))
        AtMin(p2, kd, p6) == AfterMin(p2, kd, p6, Min2(DigitRun(s, p6), 2))
        \* (?:[EW]\s*)?  tolerated letter between marker and minutes
        AfterDegMarker(p2, kd, p5) ==
            AtMin(p2, kd, IF TokIs(s, p5, {"e", "w"}) THEN SkipWs(s, p5 + 1) ELSE p5)
        AtDegMarker(p2, kd, p4) ==
            IF p4 = 0 THEN None ELSE AfterDegMarker(p2, kd, SkipWs(s, p4))
        \* (?P<deg>\d{1,3})
        AfterDeg(p2, kd) ==
            IF kd < 1 \/ kd > 3 THEN None
            ELSE AtDegMarker(p2, kd, DegMarkerEnd(s, SkipWs(s, p2 + kd)))
        AtDeg(p2) == AfterDeg(p2, DigitRun(s, p2))
    IN IF ~ TokIs(s, i, {"n", "s"}) THEN None
       ELSE AtDeg(SkipWs(s, IF TokIs(s, i + 1, {"."}) THEN i + 2 ELSE i + 1))

\* _BEARING_RX.search(s): the leftmost match
BearingSearch(s) ==
    LET First(I) == IF I = {} THEN None ELSE BearingAt(s, MinOf(I))
    IN First({i \in 1..Len(s) : BearingAt(s, i) # None})

\* letter tokens whose first letter is m or M: what the `m` of the distance
\* pattern can match
UnitWords == {"m", "meters", "meter", "marked", "monument"}

\* r'(?P<dist>[\d\.]+)\s*m' anchored at position i: the end of the number
\* run, 0 when the pattern does not match at i
NumChars == Digits \cup {"."}
DistAt(s, i) ==
    LET e == SkipIn(s, i, NumChars)
    IN IF e > i /\ TokIs(s, SkipWs(s, e), UnitWords) THEN e ELSE 0

\* float(text) of a run of digits and dots: None for a ValueError, else the
\* value in hundredths
FloatOf(run) ==
    LET Value(n, dot) ==
            IF n > 1 \/ Len(run) - n = 0 THEN None
            ELSE Some(DigitsValue(Upto(run, dot - 1)) * 100
                      + (IF Len(run) >= dot + 1 THEN DigitVal(run[dot + 1]) * 10 ELSE 0)
                      + (IF Len(run) >= dot + 2 THEN DigitVal(run[dot + 2]) ELSE 0))
        Dots(dots) ==
            Value(Cardinality(dots), IF dots = {} THEN Len(run) + 1 ELSE MinOf(dots))
    IN Dots({i \in 1..Len(run) : run[i] = "."})

\* a variant of NoDistance that returns (None, None) where the source raises
NoDistanceSkipped == [b |-> None, d |-> None, err |-> ""]

\* `if not m_dist: raise ValueError("Could not parse distance ...")`
NoDistance == [b |-> None, d |-> None, err |-> "DistanceNotFound"]

\* a variant of NoBearing that raises where the source returns (None, None)
NoBearingRaised == [b |-> None, d |-> None, err |-> "DistanceNotFound"]

\* `if not m_b: return None, None`
NoBearing == [b |-> None, d |-> None, err |-> ""]

\* parse_segment(seg): [b, d, err].  err = "" : returned (b, d), both None
\* when no bearing matched.  err = "DistanceNotFound": the ValueError of
\* line 35.  err = "BadNumber": the ValueError float() raises at line 36.
parse_segment(seg) ==
    LET Value(b, dist) ==
            IF dist = None THEN [b |-> None, d |-> None, err |-> "BadNumber"]
            ELSE [b |-> Some(b), d |-> dist, err |-> ""]
        \* m_d = re.search(..., post): the leftmost match, J the positions
        \* where the pattern matches
        Distance(b, post, J) ==
            IF J = {} THEN NoDistance
            ELSE Value(b, FloatOf(SubSeq(post, MinOf(J), DistAt(post, MinOf(J)) - 1)))
        After(g, post) ==
            Distance([ns |-> g.ns, degrees |-> g.degrees, minutes |-> g.minutes,
                      seconds |-> g.seconds, ew |-> g.ew],
                     post, {j \in 1..Len(post) : DistAt(post, j) # 0})
        Match(seg_clean, m_b) ==
            IF m_b = None THEN NoBearing
            ELSE After(m_b[1], From(seg_clean, m_b[1].end))
        Clean(seg_clean) == Match(seg_clean, BearingSearch(seg_clean))
    IN Clean(RStripSet(Strip(seg), {",", ":", ";", "."}))

\* ------------------------------------------------------------------------
\* Lines, phrases, and the joining of texts
\* ------------------------------------------------------------------------

\* two letter tokens that became adjacent are one run of letters
RECURSIVE Norm(_)
Norm(s) ==
    LET Merge(M) ==
            IF M = {} THEN s
            ELSE Norm(Upto(s, MinOf(M) - 1) \o <<s[MinOf(M)] \o s[MinOf(M) + 1]>>
                      \o From(s, MinOf(M) + 2))
    IN Merge({i \in 1..(Len(s) - 1) : IsAlpha(s[i]) /\ IsAlpha(s[i + 1])})

\* str.splitlines(): the lines between "\n" tokens, no last empty line
RECURSIVE SplitLines(_)
SplitLines(s) ==
    IF s = <<>> THEN <<>>
    ELSE LET N == {i \in 1..Len(s) : s[i] = "\n"}
         IN IF N = {} THEN <<s>>
            ELSE <<Upto(s, MinOf(N) - 1)>> \o SplitLines(From(s, MinOf(N) + 1))

\* "\n".join(lines)
RECURSIVE JoinLines(_)
JoinLines(ls) ==
    IF ls = <<>> THEN <<>>
    ELSE IF Len(ls) = 1 THEN ls[1]
         ELSE ls[1] \o <<"\n">> \o JoinLines(Tail(ls))

\* the words ws[1] \s+ ws[2] \s+ ... matched from position i on: the
\* position after the last word, 0 when they do not match
RECURSIVE PhraseEnd(_, _, _)
PhraseEnd(s, i, ws) ==
    IF ws = <<>> THEN i
    ELSE IF ~ TokIs(s, i, {ws[1]}) THEN 0
         ELSE IF Len(ws) = 1 THEN i + 1
              ELSE IF SkipWs(s, i + 1) = i + 1 THEN 0
                   ELSE PhraseEnd(s, SkipWs(s, i + 1), Tail(ws))

\* the first of the phrases (in the order given) that matches at position i:
\* its end, 0 when none does.  A regex alternation takes its first
\* alternative that matches.
RECURSIVE FirstPhraseEnd(_, _, _)
FirstPhraseEnd(s, i, phrases) ==
    IF phrases = <<>> THEN 0
    ELSE LET First(e) == IF e # 0 THEN e ELSE FirstPhraseEnd(s, i, Tail(phrases))
         IN First(PhraseEnd(s, i, phrases[1]))

\* ------------------------------------------------------------------------
\* Noise filter: _strip_headers_footers_and_continuations
\* ------------------------------------------------------------------------

\* HEADER_FOOTER_RE.match(line) on a stripped line
HeaderFooterMatch(line) ==
    LET n == Len(line)
        \* ^\s*page\s*\d+\s*(of\s*\d+)?\s*$
        pg == IF ~ TokIs(line, 1, {"page"}) THEN FALSE
              ELSE LET a == SkipWs(line, 2)
                       k == DigitRun(line, a)
                       b == SkipWs(line, a + k)
                       c == SkipWs(line, b + 1)
                       k2 == DigitRun(line, c)
                   IN k >= 1 /\ (b > n \/ (TokIs(line, b, {"of"}) /\ k2 >= 1
                                          /\ SkipWs(line, c + k2) > n))
        \* ^\s*<emdash>?\s*\d+\s*<emdash>?\s*$
        num == LET a == IF TokIs(line, 1, {"<emdash>"}) THEN SkipWs(line, 2) ELSE 1
                   k == DigitRun(line, a)
                   b == SkipWs(line, a + k)
                   c == IF TokIs(line, b, {"<emdash>"}) THEN SkipWs(line, b + 1) ELSE b
               IN k >= 1 /\ c > n
        \* ^\s*tct\s*no\.\s*\S+\s*$   and the same with oct
        tct == IF ~ TokIs(line, 1, {"tct", "oct"}) THEN FALSE
               ELSE LET a == SkipWs(line, 2)
                        b == SkipWs(line, a + 2)
                    IN TokIs(line, a, {"no"}) /\ TokIs(line, a + 1, {"."})
                       /\ b <= n /\ \A j \in b..n : line[j] \notin WS
        \* ^\s*original\s+certificate\s+of\s+title\s*$   and transfer
        cert == FirstPhraseEnd(line, 1, << <<"original", "certificate", "of", "title">>,
                                           <<"transfer", "certificate", "of", "title">> >>) = n + 1
        \* ^\s*registry\s+of\s+deeds.*$
        reg == PhraseEnd(line, 1, <<"registry", "of", "deeds">>) # 0
    IN pg \/ num \/ tct \/ cert \/ reg

\* CONTINUATION_RE anchored at position i: the end of the match, 0 when none
ContinuationAt(s, i) ==
    LET Close(e) == IF TokIs(s, e, {")"}) THEN e + 1 ELSE e
        \* continued\s+(on|in)\s+page\s*\d+\s*\)?  with the phrase ending
        \* before e1 and k digits from c, else  continuation\s*\)?
        Page(b, e1, c, k) ==
            IF e1 # 0 /\ k >= 1 THEN Close(SkipWs(s, c + k))
            ELSE IF TokIs(s, b, {"continuation"}) THEN Close(SkipWs(s, b + 1))
            ELSE 0
        Number(b, e1, c) == Page(b, e1, c, DigitRun(s, c))
        Phrase(b, e1) == Number(b, e1, SkipWs(s, e1))
        Open(b) ==
            Phrase(b, FirstPhraseEnd(s, b, << <<"continued", "on", "page">>,
                                              <<"continued", "in", "page">> >>))
    IN Open(SkipWs(s, IF TokIs(s, i, {"("}) THEN i + 1 ELSE i))

\* CONTINUATION_RE.sub("", line) from position i on: the text up to the
\* leftmost match M, then what follows the match
RECURSIVE ContinuationSub(_, _)
ContinuationSub(s, i) ==
    LET Sub(M) ==
            IF M = {} THEN From(s, i)
            ELSE SubSeq(s, i, MinOf(M) - 1)
                 \o ContinuationSub(s, ContinuationAt(s, MinOf(M)))
    IN Sub({j \in i..Len(s) : ContinuationAt(s, j) # 0})

\* the first loop of _strip_headers_footers_and_continuations over lines
RECURSIVE CleanLines(_)
CleanLines(lines) ==
    IF lines = <<>> THEN <<>>
    ELSE LET Clean(raw, line) ==
                 IF line = <<>> THEN <<raw>> \o CleanLines(Tail(lines))
                 ELSE IF HeaderFooterMatch(line) THEN CleanLines(Tail(lines))
                 ELSE <<Norm(ContinuationSub(line, 1))>> \o CleanLines(Tail(lines))
         IN Clean(lines[1], Strip(lines[1]))

\* _dehyphenate(line): re.sub(r"(\w)-\s*$", r"\1", line)
Dehyphenate(line) ==
    LET j == SkipBack(line, Len(line), WS)
    IN IF j >= 2 /\ line[j] = "-" /\ IsWordChar(line[j - 1])
       THEN Upto(line, j - 1) ELSE line

\* cleaned[i - 1].rstrip().endswith("-")
EndsWithHyphen(line) ==
    LET r == RStrip(line) IN r # <<>> /\ r[Len(r)] = "-"

\* the second loop: joined after the first n lines of cleaned
RECURSIVE JoinHyphenated(_, _)
JoinHyphenated(cleaned, n) ==
    IF n = 0 THEN <<>>
    ELSE LET Join(joined) ==
                 IF n > 1 /\ EndsWithHyphen(cleaned[n - 1])
                 THEN Upto(joined, Len(joined) - 1) \o
                      <<Norm(Dehyphenate(joined[Len(joined)]) \o LStrip(cleaned[n]))>>
                 ELSE Append(joined, cleaned[n])
         IN Join(JoinHyphenated(cleaned, n - 1))

StripHeadersFootersAndContinuations(text) ==
    LET Join(cleaned) == JoinLines(JoinHyphenated(cleaned, Len(cleaned)))
    IN Join(CleanLines(SplitLines(text)))

\* ------------------------------------------------------------------------
\* Anchor-and-span segmenter: _slice_between_anchors_spanning_pages
\* ------------------------------------------------------------------------

\* DEFAULT_START_VARIATIONS, in the order of the alternation
StartPhrases ==
    << <<"beginning", "at", "a", "point">>,
       <<"beginning", "at", "point">>,
       <<"beginning", "at">>,
       <<"begin", "at", "a", "point">> >>
StartPhrasesTail ==
    << <<"starting", "at", "a", "point">>,
       <<"commencing", "at", "a", "point">> >>

\* _compile_anchor_regex(DEFAULT_START_VARIATIONS) anchored at position i:
\* the end of the match, 0 when none
StartAt(s, i) ==
    LET \* beg\.\s*at\s+a\s+point
        Beg == IF TokIs(s, i, {"beg"}) /\ TokIs(s, i + 1, {"."})
               THEN PhraseEnd(s, SkipWs(s, i + 2), <<"at", "a", "point">>)
               ELSE 0
        Third(e2) == IF e2 # 0 THEN e2 ELSE FirstPhraseEnd(s, i, StartPhrasesTail)
        Second(e1) == IF e1 # 0 THEN e1 ELSE Third(Beg)
    IN Second(FirstPhraseEnd(s, i, StartPhrases))

\* start_re.search(s): None, or [start, end] of the leftmost match
StartSearch(s) ==
    LET First(I) == IF I = {} THEN None
                    ELSE Some([start |-> MinOf(I), end |-> StartAt(s, MinOf(I))])
    IN First({i \in 1..Len(s) : StartAt(s, i) # 0})

\* DEFAULT_END_VARIATIONS, in the order of the alternation; the last two
\* (with an optional [\.,]) never win over the first two
EndPhrases ==
    << <<"to", "point", "of", "beginning">>,
       <<"to", "the", "point", "of", "beginning">>,
       <<"returning", "to", "the", "point", "of", "beginning">>,
       <<"back", "to", "point", "of", "beginning">>,
       <<"back", "to", "the", "point", "of", "beginning">> >>

EndAt(s, i) == FirstPhraseEnd(s, i, EndPhrases)

\* a variant of EndSearch that takes the last match, as use_last_end does
EndSearchLast(s, pos) ==
    LET MaxOf(I) == CHOOSE x \in I : \A y \in I : y <= x
        Last(I) == IF I = {} THEN None
                   ELSE Some([start |-> MaxOf(I), end |-> EndAt(s, MaxOf(I))])
    IN Last({i \in pos..Len(s) : EndAt(s, i) # 0})

\* end_re.search(s, pos): the leftmost match starting at pos or later
EndSearch(s, pos) ==
    LET First(I) == IF I = {} THEN None
                    ELSE Some([start |-> MinOf(I), end |-> EndAt(s, MinOf(I))])
    IN First({i \in pos..Len(s) : EndAt(s, i) # 0})

\* STOP_MARKERS_RE matches at position i
StopAt(s, i) ==
    \/ /\ Boundary(s, i)
       /\ \E ws \in {<<"memoranda", "of", "encumbrances">>, <<"technical", "description">>} :
             LET Whole(e) == e # 0 /\ Boundary(s, e)
             IN Whole(PhraseEnd(s, i, ws))
    \/ \E w \in {"encumbrances", "annotation", "annotations", "owner", "issued"} :
          WordAt(s, i, w)
    \/ (Boundary(s, i) /\ TokIs(s, i, {"note"}) /\ TokIs(s, i + 1, {":", " "}))
    \/ (Boundary(s, i) /\ TokIs(s, i, {"area"})
        /\ TokIs(s, SkipWs(s, i + 1), {":", "="}))

\* STOP_MARKERS_RE.search(s, pos): None, or the start of the leftmost match
StopSearch(s, pos) ==
    LET First(I) == IF I = {} THEN None ELSE Some(MinOf(I))
    IN First({i \in pos..Len(s) : StopAt(s, i)})

\* lines 249-271 of _slice_between_anchors_spanning_pages, st being the
\* match of the start phrase: the slice
SliceFrom(text, st) ==
    LET Slice(m_end, end_idx) ==
            \* line 267: an end that starts before the start's end
            IF m_end # None /\ m_end[1].start < st.end THEN Some(Strip(text))
            ELSE Some(Strip(SubSeq(text, st.start, end_idx - 1)))
        Stop(m_end, m_stop) ==
            Slice(m_end, IF m_end # None THEN m_end[1].end
                         ELSE IF m_stop # None THEN m_stop[1]
                         ELSE Len(text) + 1)
        End(m_end) == Stop(m_end, StopSearch(text, st.end))
    IN End(EndSearch(text, st.end))

\* a variant of SliceBetweenAnchors that takes the whole text when no start
\* phrase is found
SliceBetweenAnchorsWholeText(text) ==
    LET Start(m_start) ==
            IF m_start = None THEN Some(Strip(text)) ELSE SliceFrom(text, m_start[1])
    IN Start(StartSearch(text))

\* _slice_between_anchors_spanning_pages(text, include_markers=True,
\* use_last_end=False): None for the ValueError of line 246, else the slice
SliceBetweenAnchors(text) ==
    LET Start(m_start) ==
            IF m_start = None THEN None ELSE SliceFrom(text, m_start[1])
    IN Start(StartSearch(text))

\* ------------------------------------------------------------------------
\* Non-boundary line filter: _filter_intruding_non_td_lines
\* ------------------------------------------------------------------------

KeepWords ==
    {"thence", "from", "point", "corner", "meters", "meter", "degrees", "degree",
     "minutes", "minute", "seconds", "second", "true", "magnetic", "bearing",
     "course", "distance", "n", "ne", "nw", "s", "se", "sw", "e", "w"}

\* letter tokens that \bnorth, south, east or west\b match inside
CardinalWords ==
    {"north", "south", "east", "west", "northeast", "northwest", "southeast",
     "southwest"}

\* KEEP_TOKENS_RE matches at position i
KeepAt(s, i) ==
    \/ \E w \in KeepWords : WordAt(s, i, w)
    \/ TokIs(s, i, CardinalWords)
    \/ TokIs(s, i, {"pob"})
    \* P\.?O\.?B\.? written with dots
    \/ (TokIs(s, i, {"p"}) /\ TokIs(s, i + 1, {"."}) /\ TokIs(s, i + 2, {"o"})
        /\ TokIs(s, i + 3, {"."}) /\ TokIs(s, i + 4, {"b"}))
    \* \bm\.\b
    \/ (Boundary(s, i) /\ TokIs(s, i, {"m"}) /\ TokIs(s, i + 1, {"."})
        /\ Boundary(s, i + 2))
    \/ TokIs(s, i, {"<deg>", "<prime>", "<dprime>"})

KeepSearch(line) == \E i \in 1..Len(line) : KeepAt(line, i)

\* str.isupper(): a cased character, and no lower-case one
IsUpperTok(t) == t \in DOMAIN UpperTable
IsLowerTok(t) == IsAlpha(t) /\ ~ IsUpperTok(t)
IsUpper(line) ==
    /\ \E i \in 1..Len(line) : IsUpperTok(line[i])
    /\ \A i \in 1..Len(line) : ~ IsLowerTok(line[i])

\* len(line): a name in angle brackets stands for one character
RECURSIVE CharLen(_)
CharLen(s) ==
    IF s = <<>> THEN 0
    ELSE (IF s[1] \in {"<deg>", "<prime>", "<dprime>", "<dquote>", "<emdash>"}
          THEN 1 ELSE Len(s[1])) + CharLen(Tail(s))

MaxHeadingLen == 60

\* a variant of KeptLines without the hard stop of line 290
RECURSIVE KeptLinesNoStop(_)
KeptLinesNoStop(lines) ==
    IF lines = <<>> THEN <<>>
    ELSE LET Keep(raw, line) ==
                 IF line = <<>> THEN <<raw>> \o KeptLinesNoStop(Tail(lines))
                 ELSE IF KeepSearch(line) THEN <<raw>> \o KeptLinesNoStop(Tail(lines))
                 ELSE IF IsUpper(line) /\ CharLen(line) <= MaxHeadingLen
                      THEN KeptLinesNoStop(Tail(lines))
                      ELSE <<raw>> \o KeptLinesNoStop(Tail(lines))
         IN Keep(lines[1], Strip(lines[1]))

\* the loop of _filter_intruding_non_td_lines: the lines kept
RECURSIVE KeptLines(_)
KeptLines(lines) ==
    IF lines = <<>> THEN <<>>
    ELSE LET Keep(raw, line) ==
                 IF line = <<>> THEN <<raw>> \o KeptLines(Tail(lines))
                 ELSE IF KeepSearch(line) THEN <<raw>> \o KeptLines(Tail(lines))
                 ELSE IF \E i \in 1..Len(line) : StopAt(line, i) THEN <<>>
                 ELSE IF IsUpper(line) /\ CharLen(line) <= MaxHeadingLen
                      THEN KeptLines(Tail(lines))
                      ELSE <<raw>> \o KeptLines(Tail(lines))
         IN Keep(lines[1], Strip(lines[1]))

FilterIntrudingNonTdLines(block) == Strip(JoinLines(KeptLines(SplitLines(block))))

\* extract_technical_description_spanning_pages(full_ocr_text): None when
\* the slice raises
ExtractTechnicalDescription(text) ==
    LET Filter(td_span) ==
            IF td_span = None THEN None
            ELSE Some(FilterIntrudingNonTdLines(td_span[1]))
    IN Filter(SliceBetweenAnchors(StripHeadersFootersAndContinuations(text)))

\* ------------------------------------------------------------------------
\* Title/owner heuristics: _clean_capture, _find_first, extract_title_meta
\* ------------------------------------------------------------------------

\* re.sub(r'\s{2,}', ' ', s)
RECURSIVE CollapseWs(_)
CollapseWs(s) ==
    IF s = <<>> THEN <<>>
    ELSE IF s[1] \in WS /\ SkipWs(s, 1) > 2
         THEN <<" ">> \o CollapseWs(From(s, SkipWs(s, 1)))
         ELSE <<s[1]>> \o CollapseWs(Tail(s))

\* _clean_capture(s)
clean_capture(s) ==
    LET Cut(C) == IF C = {} THEN s ELSE Upto(s, MinOf(C) - 1)
    IN StripSet(CollapseWs(Cut({i \in 1..Len(s) : s[i] \in {"\n", ";"}})),
                {" ", ",", ".", ";", ":"})

\* the capture ([A-Z][A-Za-z\.\- ,]+) of _OWNER_PATTERNS at position i (with
\* re.IGNORECASE): None, or the captured tokens
OwnerChars == {".", "-", " ", ","}
OwnerCapture(s, i) ==
    LET Cap(e) == IF i <= Len(s) /\ IsAlpha(s[i]) /\ (e > i + 1 \/ Len(s[i]) >= 2)
                  THEN Some(SubSeq(s, i, e - 1)) ELSE None
    IN Cap(SkipIn(s, i, {t \in {s[k] : k \in 1..Len(s)} :
                            IsAlpha(t) \/ t \in OwnerChars}))

\* _OWNER_PATTERNS anchored at position i, first pattern then second
OwnerAt(s, i, second) ==
    LET \* (?:Registered\s+Owner|Owner)\s*[:\-]\s*(...)
        Colon(e1, a1) == IF e1 # 0 /\ TokIs(s, a1, {":", "-"})
                         THEN OwnerCapture(s, SkipWs(s, a1 + 1)) ELSE None
        First(e1) == Colon(e1, SkipWs(s, e1))
        \* (?:Registered\s+in\s+favor\s+of|in\s+favor\s+of)\s+(...)
        Gap(e2, a2) == IF e2 # 0 /\ a2 > e2 THEN OwnerCapture(s, a2) ELSE None
        Second(e2) == Gap(e2, SkipWs(s, e2))
    IN IF second
       THEN Second(FirstPhraseEnd(s, i, << <<"registered", "in", "favor", "of">>,
                                           <<"in", "favor", "of">> >>))
       ELSE First(FirstPhraseEnd(s, i, << <<"registered", "owner">>, <<"owner">> >>))

\* _find_first(_OWNER_PATTERNS, text): None, or the cleaned capture
FindOwner(text) ==
    LET Found(I, second) ==
            IF I = {} THEN None
            ELSE Some(clean_capture(OwnerAt(text, MinOf(I), second)[1]))
        Search(second) ==
            Found({i \in 1..Len(text) : OwnerAt(text, i, second) # None}, second)
        Try(first) == IF first # None THEN first ELSE Search(TRUE)
    IN Try(Search(FALSE))

\* the capture ([A-Za-z0-9][A-Za-z0-9\-\/\. ]{2,}) of _TITLE_NO_PATTERNS
TitleChars == {"-", "/", ".", " "}

\* the end of the capture that starts at position i
TitleCaptureEnd(s, i) ==
    SkipIn(s, i, {t \in {s[k] : k \in 1..Len(s)} : IsWordChar(t) \/ t \in TitleChars})

TitleCapture(s, i) ==
    LET Cap(e) == IF i <= Len(s) /\ IsWordChar(s[i]) /\ CharLen(SubSeq(s, i, e - 1)) >= 3
                  THEN Some(SubSeq(s, i, e - 1)) ELSE None
    IN Cap(TitleCaptureEnd(s, i))

\* \s*[:\-]?\s* from position i: the position after it
AfterColon(s, i) ==
    LET a == SkipWs(s, i)
    IN SkipWs(s, IF TokIs(s, a, {":", "-"}) THEN a + 1 ELSE a)

MaxTitleGap == 100

\* first pattern of _TITLE_NO_PATTERNS anchored at position i:
\* (?:Transfer|Original)\s+Certificate\s+of\s+Title[\s\S]{0,100}?\bNo\.?
\* \s*[:\-]?\s*(...)
TitleLongAt(s, i) ==
    LET Cap(j) == TitleCapture(s, AfterColon(s, IF TokIs(s, j + 1, {"."})
                                                THEN j + 2 ELSE j + 1))
        First(J) == IF J = {} THEN None ELSE Cap(MinOf(J))
        After(e) ==
            IF e = 0 THEN None
            ELSE First({j \in e..Len(s) :
                          /\ TokIs(s, j, {"no"}) /\ Boundary(s, j)
                          /\ CharLen(SubSeq(s, e, j - 1)) <= MaxTitleGap
                          /\ Cap(j) # None})
    IN After(FirstPhraseEnd(s, i, << <<"transfer", "certificate", "of", "title">>,
                                     <<"original", "certificate", "of", "title">> >>))

\* second pattern, on one line:
\* ^\s*TCT\s*(?:No\.?|Number|#)?\s*[:\-]?\s*(...)\s*$
TitleShortLine(line) ==
    LET Whole(a, d, cap) ==
            IF TokIs(line, a, {"tct"}) /\ cap # None
               /\ TitleCaptureEnd(line, d) = Len(line) + 1
            THEN cap ELSE None
        Cap(a, d) == Whole(a, d, TitleCapture(line, d))
        \* (?:No\.?|Number|#)?
        Label(a, b) ==
            Cap(a, AfterColon(line,
                     IF TokIs(line, b, {"no"})
                     THEN (IF TokIs(line, b + 1, {"."}) THEN b + 2 ELSE b + 1)
                     ELSE IF TokIs(line, b, {"number", "#"}) THEN b + 1 ELSE b))
        Tct(a) == Label(a, SkipWs(line, a + 1))
    IN Tct(SkipWs(line, 1))

\* _find_first(_TITLE_NO_PATTERNS, text): None, or the cleaned capture
FindTitleNumber(text) ==
    LET Short(lines, L) ==
            IF L = {} THEN None
            ELSE Some(clean_capture(TitleShortLine(lines[MinOf(L)])[1]))
        Lines(lines) ==
            Short(lines, {n \in 1..Len(lines) : TitleShortLine(lines[n]) # None})
        Long(I) ==
            IF I # {} THEN Some(clean_capture(TitleLongAt(text, MinOf(I))[1]))
            ELSE Lines(SplitLines(text))
    IN Long({i \in 1..Len(text) : TitleLongAt(text, i) # None})

\* what _title_num_gen() and _owner_gen() can return: values drawn with the
\* module random, two of each kept
GeneratedTitleNumbers == {<<"TCT", "-", "1", "2", "3", "4", "5", "6">>,
                          <<"OCT", "-", "2", "0", "2", "5", "-", "0", "0", "4", "5", "1", "2", "3">>}
GeneratedOwners == {<<"Juan", " ", "A", ".", " ", "Santos">>,
                    <<"Maria", " ", "B", ".", " ", "Reyes">>}

\* extract_title_meta(text): the set of (title_number, owner) it can return.
\* `x or gen()` takes the generated value when the pattern found nothing or
\* an empty string.
ExtractTitleMeta(text) ==
    LET Meta(t, o) ==
            { [title_number |-> tn, owner |-> ow] :
                tn \in (IF t # None /\ t[1] # <<>> THEN {t[1]} ELSE GeneratedTitleNumbers),
                ow \in (IF o # None /\ o[1] # <<>> THEN {o[1]} ELSE GeneratedOwners) }
    IN Meta(FindTitleNumber(text), FindOwner(text))

\* ------------------------------------------------------------------------
\* Main parser: parse_land_title
\* ------------------------------------------------------------------------

\* re.split(r'(?:;\s*|\bthence\b)', work) from position i on, cur being the
\* part collected so far
RECURSIVE SplitCorners(_, _, _)
SplitCorners(s, i, cur) ==
    LET \* J the positions from i on where a separator starts
        Cut(J) ==
            IF J = {} THEN <<cur \o From(s, i)>>
            ELSE <<cur \o SubSeq(s, i, MinOf(J) - 1)>>
                 \o SplitCorners(s, IF s[MinOf(J)] = ";" THEN SkipWs(s, MinOf(J) + 1)
                                    ELSE MinOf(J) + 1, <<>>)
    IN Cut({j \in i..Len(s) : s[j] = ";" \/ WordAt(s, j, "thence")})

\* re.split(r'\s+from\s+', first_seg) from position i on.  A match takes the
\* whitespace on both sides of the word, so a second "from" right after the
\* first has no whitespace left before it.
RECURSIVE SplitFrom(_, _, _)
SplitFrom(s, i, cur) ==
    LET \* the match starts at the whitespace j, the word stands at a
        Word(j, a) == s[j] \in WS /\ TokIs(s, a, {"from"}) /\ SkipWs(s, a + 1) > a + 1
        Cut(J) ==
            IF J = {} THEN <<cur \o From(s, i)>>
            ELSE <<cur \o SubSeq(s, i, MinOf(J) - 1)>>
                 \o SplitFrom(s, SkipWs(s, SkipWs(s, MinOf(J)) + 1), <<>>)
    IN Cut({j \in i..Len(s) : Word(j, SkipWs(s, j))})

\* [p for p in raw_parts if p and p.strip()]
SelectSeq2(ps) == SelectSeq(ps, LAMBDA p : ~ IsBlank(p))

\* a variant of CornerCalls that skips a part whose parse_segment raises
RECURSIVE CornerCallsSkipErrors(_, _)
CornerCallsSkipErrors(segs, acc) ==
    IF segs = <<>> THEN [boundaries |-> acc, err |-> ""]
    ELSE LET Call(r) ==
                 IF r.err = "" /\ r.b # None /\ r.d # None
                 THEN CornerCallsSkipErrors(Tail(segs), Append(acc, [b |-> r.b[1], d |-> r.d[1]]))
                 ELSE CornerCallsSkipErrors(Tail(segs), acc)
         IN Call(parse_segment(segs[1]))

\* the loop over corner_segs: [boundaries, err], err the first error raised
RECURSIVE CornerCalls(_, _)
CornerCalls(segs, acc) ==
    IF segs = <<>> THEN [boundaries |-> acc, err |-> ""]
    ELSE LET Call(r) ==
                 IF r.err # "" THEN [boundaries |-> acc, err |-> r.err]
                 ELSE IF r.b # None /\ r.d # None
                      THEN CornerCalls(Tail(segs), Append(acc, [b |-> r.b[1], d |-> r.d[1]]))
                      ELSE CornerCalls(Tail(segs), acc)
         IN Call(parse_segment(segs[1]))

Failure(e) ==
    [err |-> e, technical_description |-> <<>>, tie_point |-> <<>>,
     boundaries |-> <<>>]

\* parse_land_title(text) without the metadata: err names the ValueError
\* raised ("" when the call returns)
\*   EmptyInput       line 328    NoAnchorFound    line 246
\*   AnchorLost       line 341    NoSegments       line 348
\*   MissingTiePoint  line 355    DistanceNotFound line 35
\*   BadNumber        line 36 (float() of the matched run)
ParseLandTitleBody(text) ==
    LET \* lines 364-368: the result
        Result(technical_description, split_td, tie, rest) ==
            IF tie.err # "" THEN Failure(tie.err)
            ELSE IF rest.err # "" THEN Failure(rest.err)
            ELSE [err |-> "",
                  technical_description |-> technical_description,
                  tie_point |-> clean_capture(split_td[2]),
                  boundaries |-> rest.boundaries]
        \* lines 358-362: the call of the first part, then the other parts
        Corners(technical_description, parts, split_td, tie) ==
            Result(technical_description, split_td, tie,
                   CornerCalls(Tail(parts),
                               IF tie.err = "" /\ tie.b # None /\ tie.d # None
                                  /\ tie.d[1] # 0
                               THEN <<[b |-> tie.b[1], d |-> tie.d[1]]>>
                               ELSE <<>>))
        \* lines 351-356
        TiePoint(technical_description, parts, split_td) ==
            IF Len(split_td) # 2 THEN Failure("MissingTiePoint")
            ELSE Corners(technical_description, parts, split_td,
                         parse_segment(split_td[1]))
        \* lines 345-348
        Parts(technical_description, parts) ==
            IF parts = <<>> THEN Failure("NoSegments")
            ELSE TiePoint(technical_description, parts, SplitFrom(parts[1], 1, <<>>))
        \* lines 338-342
        Anchor(technical_description, m_anchor) ==
            IF m_anchor = None THEN Failure("AnchorLost")
            ELSE Parts(technical_description,
                       SelectSeq2(SplitCorners(
                           RStripSet(From(technical_description, m_anchor[1].start),
                                     {":", ".", " "}), 1, <<>>)))
        \* line 335
        Described(td) ==
            IF td = None THEN Failure("NoAnchorFound")
            ELSE Anchor(td[1], StartSearch(td[1]))
    IN IF IsBlank(text) THEN Failure("EmptyInput")
       ELSE Described(ExtractTechnicalDescription(text))

\* parse_land_title(text): the set of outcomes; the metadata is read before
\* the technical description, and is part of the result only
parse_land_title(text) ==
    LET Outcomes(body) ==
            IF body.err # ""
            THEN {[err |-> body.err, title_number |-> <<>>, owner |-> <<>>,
                   technical_description |-> <<>>, tie_point |-> <<>>,
                   boundaries |-> <<>>]}
            ELSE {[err |-> "", title_number |-> m.title_number, owner |-> m.owner,
                   technical_description |-> body.technical_description,
                   tie_point |-> body.tie_point, boundaries |-> body.boundaries] :
                     m \in ExtractTitleMeta(text)}
    IN Outcomes(ParseLandTitleBody(text))

\* ------------------------------------------------------------------------
\* The parsing endpoint: parse_description
\* ------------------------------------------------------------------------

\* the response of parse_description for one outcome of parse_land_title:
\* a ValueError becomes HTTPException(status_code=400), a result the
\* ParseResponse (status 200)
Respond(o) ==
    [status |-> IF o.err # "" THEN 400 ELSE 200,
     err |-> o.err,
     title_number |-> o.title_number,
     owner |-> o.owner,
     technical_description |-> o.technical_description,
     tie_point |-> o.tie_point,
     boundaries |-> o.boundaries]

NoResponse ==
    [status |-> 0, err |-> "", title_number |-> <<>>, owner |-> <<>>,
     technical_description |-> <<>>, tie_point |-> <<>>, boundaries |-> <<>>]

\* ------------------------------------------------------------------------
\* Request texts
\* ------------------------------------------------------------------------

MaxLegs == 2

HeadMarked == <<"beginning", " ", "at", " ", "a", " ", "point", " ", "marked", " ", "x", " ", "from", " ", "TP", "-", "1">>
HeadPlain == <<"beginning", " ", "at", " ", "a", " ", "point", " ", "from", " ", "TP", "-", "1">>
Heads == {HeadMarked, HeadPlain}

\* the tie-point name of both heads
HeadName == <<"TP", "-", "1">>

\* legs, each with the separator that precedes it
LegText ==
    [good1    |-> <<";", " ", "thence", " ", "N", "4", "5", "-", "3", "0", "E", " ", "1", "0", "0", "m">>,
     good2    |-> <<";", " ", "S", "4", "5", "-", "3", "0", "W", " ", "5", "0", ".", "5", "0", "m">>,
     good3    |-> <<" ", "thence", " ", "N", " ", "4", "5", "<deg>", " ", "3", "0", "'", " ", "W", " ", "2", "0", " ", "m">>,
     capsline |-> <<";", "\n", "N", "4", "5", "-", "3", "0", "E", " ", "1", "0", "0", "M">>,
     seconds  |-> <<";", " ", "thence", " ", "S", "4", "5", "-", "3", "0", " ", "1", "5", " ", "E", " ", "1", "0", "0", "m">>,
     zero     |-> <<";", " ", "thence", " ", "S", "4", "5", "-", "3", "0", "W", " ", "0", "m">>,
     nodist   |-> <<";", " ", "thence", " ", "N", "4", "5", "-", "3", "0", "E">>,
     noise    |-> <<";", " ", "thence", " ", "x">>,
     unmarked |-> <<";", " ", "thence", " ", "N", " ", "4", "5", " ", "3", "0", " ", "E", " ", "1", "2", "0", ".", "5", "0", "m">>,
     badnum   |-> <<";", " ", "thence", " ", "N", "4", "5", "-", "3", "0", "E", " ", "1", ".", "2", ".", "3", "m">>]

LegIds == DOMAIN LegText

\* what each leg says, for the legs that are a bearing with a degree marker
\* plus a distance: the values written in the text (distance in hundredths)
LegCall ==
    [good1    |-> [b |-> [ns |-> "N", degrees |-> 45, minutes |-> 30, seconds |-> None, ew |-> Some("E")], d |-> 10000],
     good2    |-> [b |-> [ns |-> "S", degrees |-> 45, minutes |-> 30, seconds |-> None, ew |-> Some("W")], d |-> 5050],
     good3    |-> [b |-> [ns |-> "N", degrees |-> 45, minutes |-> 30, seconds |-> None, ew |-> Some("W")], d |-> 2000],
     capsline |-> [b |-> [ns |-> "N", degrees |-> 45, minutes |-> 30, seconds |-> None, ew |-> Some("E")], d |-> 10000],
     seconds  |-> [b |-> [ns |-> "S", degrees |-> 45, minutes |-> 30, seconds |-> Some(<<"1", "5">>), ew |-> Some("E")], d |-> 10000],
     zero     |-> [b |-> [ns |-> "S", degrees |-> 45, minutes |-> 30, seconds |-> None, ew |-> Some("W")], d |-> 0]]

\* the legs that are a bearing with a degree marker plus a distance above 0
WellFormedLegs == {"good1", "good2", "good3", "capsline", "seconds"}

TailClosing == <<" ", "to", " ", "point", " ", "of", " ", "beginning", ".">>
Tails == {<<>>, TailClosing}

StartPlain == <<"beginning", " ", "at", " ", "a", " ", "point", " ", "marked", " ", "x">>
StartCaps == <<"BEGINNING", " ", "AT", "\n", "x">>
StartNone == <<"at", " ", "a", " ", "point", " ", "marked", " ", "x">>
StartHeader == <<"beginning", "\n", "page", " ", "2", "\n", "at", " ", "a", " ", "point">>
StartHyphen == <<"beginn", "-", "\n", "ing", " ", "at", " ", "a", " ", "point">>
StartHyphenBlank == <<"beginn", "-", "\n", "\n", "ing", " ", "at", " ", "a", " ", "point">>
StartHyphenHeader == <<"beginn", "-", "\n", "page", " ", "2", "\n", "ing", " ", "at", " ", "a", " ", "point">>
StartHyphenRun == <<"be", "-", "\n", "ginn", "-", "\n", " ", "ing", " ", "at", " ", "a", " ", "point">>
StartHyphenAlone == <<"beginning", " ", "at", " ", "-", "\n", "a", " ", "point">>
Starts ==
    {StartPlain, StartCaps, StartNone, StartHeader, StartHyphen, StartHyphenBlank,
     StartHyphenHeader, StartHyphenRun, StartHyphenAlone}

FromOne == <<" ", "from", " ", "TP", "-", "1">>
FromTwo == <<" ", "from", " ", "TP", "-", "1", " ", "from", " ", "x">>
FromTwice == <<" ", "from", " ", "from", " ", "TP", "-", "1">>
FromLast == <<" ", "from">>
Froms == {<<>>, FromOne, FromTwo, FromTwice, FromLast}

WithHeaderAndOwner == <<"tct", " ", "no", ".", " ", "1", "2", "3", "\n", "beginning", " ", "at", " ", "a", " ", "point", " ", "from", " ", "TP", "-", "1", ";", " ", "thence", " ", "N", "4", "5", "-", "3", "0", "E", " ", "1", "0", "0", "m", "\n", "owner", ":", " ", "JUAN">>
WithContinuation == <<"beginning", " ", "at", " ", "a", " ", "point", " ", "from", " ", "TP", "-", "1", " ", "(", "continued", " ", "on", " ", "page", " ", "2", ")", "\n", ";", " ", "thence", " ", "N", "4", "5", "-", "3", "0", "E", " ", "1", "0", "0", "m", " ", "to", " ", "point", " ", "of", " ", "beginning", ".">>

WithTitleOnly == <<"transfer", " ", "certificate", " ", "of", " ", "title", " ", "no", ".", " ", "t", "-", "1", "2", "3", "\n", "beginning", " ", "at", " ", "a", " ", "point", " ", "from", " ", "TP", "-", "1", ";", " ", "thence", " ", "N", "4", "5", "-", "3", "0", "E", " ", "1", "0", "0", "m">>
WithFavorOnly == <<"in", " ", "favor", " ", "of", " ", "JUAN", "\n", "beginning", " ", "at", " ", "a", " ", "point", " ", "from", " ", "TP", "-", "1", ";", " ", "thence", " ", "N", "4", "5", "-", "3", "0", "E", " ", "1", "0", "0", "m">>

BlankTexts == {<<>>, <<" ">>, <<"\n", " ">>}

\* tie lines that end in a tie-point name: the start phrase, "from", a name
TieLinePrefix == <<"beginning", " ", "at", " ", "a", " ", "point", " ", "from", " ">>
TieNames ==
    {<<"TP", "-", "1">>, <<"TP", ".", "1">>, <<"TP", "-", "1", ".">>, <<",", "TP">>,
     <<"TP", " ", " ", "1">>, <<"TP", "\n", "1">>}

\* sequences of at most n leg ids
RECURSIVE LegSeqs(_)
LegSeqs(n) ==
    IF n = 0 THEN {<<>>}
    ELSE LegSeqs(n - 1) \cup
         {Append(ls, l) : ls \in {x \in LegSeqs(n - 1) : Len(x) = n - 1}, l \in LegIds}

RECURSIVE LegsText(_)
LegsText(ls) == IF ls = <<>> THEN <<>> ELSE LegText[ls[1]] \o LegsText(Tail(ls))

\* a request: the text sent, and how it was put together
\*   kind "legs":  head, legs, tail     kind "tie": start, from, legs, tail
\*   kind "text":  a text as it is       kind "name": prefix and name, legs
Requests ==
    {[kind |-> "legs", text |-> h \o LegsText(ls) \o t, head |-> h, legs |-> ls, tail |-> t] :
        h \in Heads, ls \in LegSeqs(MaxLegs), t \in Tails}
    \cup
    {[kind |-> "tie", text |-> st \o fr \o LegsText(ls) \o t, head |-> st \o fr, legs |-> ls, tail |-> t] :
        st \in Starts, fr \in Froms, ls \in {<<>>, <<"good1">>, <<"good3">>}, t \in Tails}
    \cup
    {[kind |-> "name", text |-> TieLinePrefix \o n \o LegText.good1,
      head |-> TieLinePrefix \o n, legs |-> <<"good1">>, tail |-> <<>>] : n \in TieNames}
    \cup
    {[kind |-> "text", text |-> x, head |-> <<>>, legs |-> <<>>, tail |-> <<>>] :
        x \in BlankTexts \cup {WithHeaderAndOwner, WithContinuation, WithTitleOnly,
                            WithFavorOnly}}

\* ------------------------------------------------------------------------
\* The parsing service as a state machine
\* ------------------------------------------------------------------------

IdleTokenizer ==
    /\ frag = <<>>
    /\ fragShape = [kind |-> "none"]
    /\ fragOut = [b |-> None, d |-> None, err |-> "idle"]
IdleGeometry ==
    /\ payload = [tie_lat |-> 0, tie_lon |-> 0, boundaries |-> <<>>]
    /\ gphase = "idle" /\ gi = 0 /\ curr = <<0, 0>> /\ out = <<>> /\ thetas = <<>>
\* parse_land_title not called: the generator is not drawn from
IdleInvocations ==
    /\ rng = 0
    /\ inv = <<>>
IdleSegmenter ==
    /\ doc = <<>>
    /\ docShape = [kind |-> "none"]
    /\ tdOut = [pc |-> "idle", td_span |-> None, td_final |-> None]

IdleAuth ==
    /\ refresh_tokens = <<>>
    /\ is_active = <<>>
    /\ last = [op |-> "none"]
    /\ loggedOut = {}

IdleAcct ==
    /\ otp_codes = <<>>
    /\ email_verify_tokens = <<>>
    /\ mobile = <<>>
    /\ is_verified = <<>>
    /\ acctLast = [op |-> "none"]

IdleRace ==
    /\ racers = <<>>

IdleMail ==
    /\ email = <<>>

IdleProp ==
    /\ properties = <<>>
    /\ property_reports = <<>>
    /\ files = 0
    /\ propLast = [op |-> "none"]

IdleParser ==
    /\ req = <<>>
    /\ shape = [kind |-> "none"]
    /\ phase = "idle"
    /\ resp = NoResponse

InitParse ==
    /\ \E r \in Requests :
          /\ req = r.text
          /\ shape = [kind |-> r.kind, head |-> r.head, legs |-> r.legs, tail |-> r.tail]
    /\ phase = "recv"
    /\ resp = NoResponse
    /\ IdleTokenizer
    /\ IdleGeometry
    /\ IdleInvocations
    /\ IdleSegmenter
    /\ IdleAuth
    /\ IdleAcct
    /\ IdleRace
    /\ IdleMail
    /\ IdleProp

\* POST /api/v1/parsing/description
ParseDescription ==
    /\ phase = "recv"
    /\ \E o \in parse_land_title(req) : resp' = Respond(o)
    /\ phase' = "sent"
    /\ UNCHANGED <<req, shape, segVars, geoVars, invVars, docVars, authVars, acctVars, raceVars, mailVars, propVars>>

NextParse == ParseDescription

SpecParse == InitParse /\ [][NextParse]_vars

\* ------------------------------------------------------------------------
\* The tokenizer alone: parse_segment on fragments
\* ------------------------------------------------------------------------

\* what stands between the degree value and the minute value
MarkerText ==
    [blank  |-> <<" ">>,
     hyphen |-> <<"-">>,
     sign   |-> <<"<deg>", " ">>,
     word   |-> <<" ", "deg", ".", " ">>]

\* the E/W letter after the minutes, if any
EwText == [none |-> <<>>, east |-> <<" ", "E">>, west |-> <<"W">>]

\* the distance after the bearing, if any
DistText ==
    [none   |-> <<>>,
     glued  |-> <<" ", "1", "2", "0", ".", "5", "0", "m">>,
     spaced |-> <<" ", "1", "0", "0", " ", "m">>,
     dots   |-> <<" ", "1", ".", "2", ".", "3", "m">>,
     dot    |-> <<" ", ".", "m">>]

DegTexts == {<<"4", "5">>, <<"5">>}
MinTexts == {<<"3", "0">>, <<"0", "5">>}

Fragments ==
    {[kind |-> "frag", ns |-> n, spaced |-> sp, deg |-> dg, marker |-> mk,
      min |-> mn, ew |-> e, dist |-> ds] :
        n \in {"N", "S"}, sp \in BOOLEAN, dg \in DegTexts, mk \in DOMAIN MarkerText,
        mn \in MinTexts, e \in DOMAIN EwText, ds \in DOMAIN DistText}

FragmentText(f) ==
    <<f.ns>> \o (IF f.spaced THEN <<" ">> ELSE <<>>) \o f.deg \o MarkerText[f.marker]
    \o f.min \o EwText[f.ew] \o DistText[f.dist]

InitTokenizer ==
    /\ \E f \in Fragments : frag = FragmentText(f) /\ fragShape = f
    /\ fragOut = [b |-> None, d |-> None, err |-> "idle"]
    /\ IdleParser
    /\ IdleGeometry
    /\ IdleInvocations
    /\ IdleSegmenter
    /\ IdleAuth
    /\ IdleAcct
    /\ IdleRace
    /\ IdleMail
    /\ IdleProp

ParseSegment ==
    /\ fragShape.kind = "frag"
    /\ fragOut.err = "idle"
    /\ fragOut' = parse_segment(frag)
    /\ UNCHANGED <<frag, fragShape, parseVars, geoVars, invVars, docVars, authVars, acctVars, raceVars, mailVars, propVars>>

NextTokenizer == ParseSegment

SpecTokenizer == InitTokenizer /\ [][NextTokenizer]_vars

\* ------------------------------------------------------------------------
\* Boundary traversal: POST /api/v1/geometry/boundaries
\* ------------------------------------------------------------------------

\* Angles are counted in minutes of arc, so that deg + min / 60.0 is the
\* integer deg * 60 + min and 360 degrees are FullCircle.
MinutesPerDegree == 60
FullCircle == 360 * MinutesPerDegree
HalfCircle == 180 * MinutesPerDegree

\* a variant of Azimuth that takes a bearing outside the four quadrants as
\* N/E
AzimuthElseNorthEast(b) ==
    LET angle == b.deg * MinutesPerDegree + b.min
    IN IF b.ns = "N" /\ b.ew = Some("W") THEN FullCircle - angle
       ELSE IF b.ns = "S" /\ b.ew = Some("E") THEN HalfCircle - angle
       ELSE IF b.ns = "S" /\ b.ew = Some("W") THEN HalfCircle + angle
       ELSE angle

\* theta of one Bearing b of the payload, lines 16-24 of geometry.py
Azimuth(b) ==
    LET angle == b.deg * MinutesPerDegree + b.min
    IN IF b.ns = "N" /\ b.ew = Some("E") THEN angle
       ELSE IF b.ns = "N" /\ b.ew = Some("W") THEN FullCircle - angle
       ELSE IF b.ns = "S" /\ b.ew = Some("E") THEN HalfCircle - angle
       ELSE HalfCircle + angle

\* next_point(lat, lon, theta_deg, distance_m): the geodesic solver of
\* geographiclib is outside the repository; here a point moves by distance
\* grid units along each axis the azimuth has a component on
Heading(theta) ==
    LET t == theta % FullCircle
        q == FullCircle \div 4
    IN [north |-> IF t < q \/ t > 3 * q THEN 1 ELSE IF t = q \/ t = 3 * q THEN 0 ELSE -1,
        east  |-> IF t > 0 /\ t < 2 * q THEN 1 ELSE IF t = 0 \/ t = 2 * q THEN 0 ELSE -1]

next_point(lat, lon, theta, distance) ==
    <<lat + Heading(theta).north * distance, lon + Heading(theta).east * distance>>

MaxBearings == 2

\* the values a Bearing of the payload takes here: ns is any str, ew any
\* str or None, deg and min any int
BearingValues ==
    [ns : {"N", "S", "X"}, ew : {Some("E"), Some("W"), None},
     deg : {0, 45, 90}, min : {0, 30}, distance : {100}]

RECURSIVE BearingSeqs(_)
BearingSeqs(n) ==
    IF n = 0 THEN {<<>>}
    ELSE BearingSeqs(n - 1) \cup
         {Append(bs, b) : bs \in {x \in BearingSeqs(n - 1) : Len(x) = n - 1},
                          b \in BearingValues}

\* the starting coordinates <<tie_lat, tie_lon>> of the payloads
TiePoints == {<<0, 0>>, <<10, 20>>}

InitGeometry ==
    /\ \E bs \in BearingSeqs(MaxBearings), tie \in TiePoints :
          payload = [tie_lat |-> tie[1], tie_lon |-> tie[2], boundaries |-> bs]
    /\ gphase = "loop"
    /\ gi = 0
    /\ curr = <<payload.tie_lat, payload.tie_lon>>
    /\ out = <<>>
    /\ thetas = <<>>
    /\ IdleParser
    /\ IdleTokenizer
    /\ IdleInvocations
    /\ IdleSegmenter
    /\ IdleAuth
    /\ IdleAcct
    /\ IdleRace
    /\ IdleMail
    /\ IdleProp

\* a variant of BoundariesStep that hands [lon2, lat2] on as the next start
BoundariesStepSwapped ==
    /\ gphase = "loop"
    /\ gi < Len(payload.boundaries)
    /\ LET b == payload.boundaries[gi + 1]
           theta == Azimuth(b)
           p == next_point(curr[1], curr[2], theta, b.distance)
       IN /\ thetas' = Append(thetas, theta)
          /\ out' = Append(out, <<p[2], p[1]>>)
          /\ curr' = <<p[2], p[1]>>
    /\ gi' = gi + 1
    /\ UNCHANGED <<payload, gphase, parseVars, segVars, invVars, docVars, authVars, acctVars, raceVars, mailVars, propVars>>

\* a variant of BoundariesStep that passes over a leg whose ns is neither N
\* nor S
BoundariesStepSkipping ==
    /\ gphase = "loop"
    /\ gi < Len(payload.boundaries)
    /\ LET b == payload.boundaries[gi + 1]
           theta == Azimuth(b)
           p == next_point(curr[1], curr[2], theta, b.distance)
       IN IF b.ns \in {"N", "S"}
          THEN /\ thetas' = Append(thetas, theta)
               /\ out' = Append(out, <<p[2], p[1]>>)
               /\ curr' = p
          ELSE UNCHANGED <<thetas, out, curr>>
    /\ gi' = gi + 1
    /\ UNCHANGED <<payload, gphase, parseVars, segVars, invVars, docVars, authVars, acctVars, raceVars, mailVars, propVars>>

\* one pass of the loop of boundaries(), lines 15-28
BoundariesStep ==
    /\ gphase = "loop"
    /\ gi < Len(payload.boundaries)
    /\ LET b == payload.boundaries[gi + 1]
           theta == Azimuth(b)
           p == next_point(curr[1], curr[2], theta, b.distance)
       IN /\ thetas' = Append(thetas, theta)
          /\ out' = Append(out, <<p[2], p[1]>>)
          /\ curr' = p
    /\ gi' = gi + 1
    /\ UNCHANGED <<payload, gphase, parseVars, segVars, invVars, docVars, authVars, acctVars, raceVars, mailVars, propVars>>

\* line 29: return out
BoundariesReturn ==
    /\ gphase = "loop"
    /\ gi = Len(payload.boundaries)
    /\ gphase' = "returned"
    /\ UNCHANGED <<payload, gi, curr, out, thetas, parseVars, segVars, invVars, docVars, authVars, acctVars, raceVars, mailVars, propVars>>

NextGeometry == BoundariesStep \/ BoundariesReturn

SpecGeometry == InitGeometry /\ [][NextGeometry]_vars
\* ------------------------------------------------------------------------
\* parse_land_title called more than once in one process
\* ------------------------------------------------------------------------

\* The generator of the module random is one object of the process, seeded
\* when the module is imported; every value drawn moves it on.  Its states
\* are numbered, the draws of one call of _title_num_gen or of _owner_gen are
\* taken as one draw, and the value drawn is a function of the state.
RandomStates == 0..3
NextRandom(r) == (r + 1) % Cardinality(RandomStates)

\* _title_num_gen() and _owner_gen() in state r of the generator
title_num_gen(r) == CHOOSE t \in GeneratedTitleNumbers : (t[1] = "TCT") <=> (r % 2 = 0)
owner_gen(r) == CHOOSE o \in GeneratedOwners : (o[1] = "Juan") <=> (r \div 2 = 0)

\* extract_title_meta(text) in state r of the generator: the values and the
\* state it leaves.  `x or gen()` calls gen() only when x is None or empty.
ExtractTitleMetaIn(text, r) ==
    LET Meta(tn, r1, o) ==
            IF o # None /\ o[1] # <<>>
            THEN [title_number |-> tn, owner |-> o[1], rng |-> r1]
            ELSE [title_number |-> tn, owner |-> owner_gen(r1), rng |-> NextRandom(r1)]
        Owner(tn, r1) == Meta(tn, r1, FindOwner(text))
        Title(t) ==
            IF t # None /\ t[1] # <<>> THEN Owner(t[1], r)
            ELSE Owner(title_num_gen(r), NextRandom(r))
    IN Title(FindTitleNumber(text))

\* parse_land_title(text) in state r of the generator: the outcome and the
\* state it leaves.  The metadata is read at line 331, before the technical
\* description is looked for, so a parse that fails later has drawn as well.
ParseLandTitleIn(text, r) ==
    LET Outcome(body, m) ==
            IF body.err # ""
            THEN [out |-> [err |-> body.err, title_number |-> <<>>, owner |-> <<>>,
                           technical_description |-> <<>>, tie_point |-> <<>>,
                           boundaries |-> <<>>],
                  rng |-> IF body.err = "EmptyInput" THEN r ELSE m.rng]
            ELSE [out |-> [err |-> "", title_number |-> m.title_number, owner |-> m.owner,
                           technical_description |-> body.technical_description,
                           tie_point |-> body.tie_point, boundaries |-> body.boundaries],
                  rng |-> m.rng]
    IN Outcome(ParseLandTitleBody(text), ExtractTitleMetaIn(text, r))

\* the invocations, and the texts they are called with
Invocations == {"a", "b"}
InvocationTexts ==
    {HeadPlain \o LegText.good1, HeadPlain \o LegText.nodist, StartNone, <<" ">>,
     WithHeaderAndOwner, WithTitleOnly, WithFavorOnly}

InitInvocations ==
    /\ rng \in RandomStates
    /\ \E f \in [Invocations -> InvocationTexts] :
          inv = [k \in Invocations |-> [text |-> f[k], pc |-> "called", out |-> NoResponse]]
    /\ IdleParser
    /\ IdleTokenizer
    /\ IdleGeometry
    /\ IdleSegmenter
    /\ IdleAuth
    /\ IdleAcct
    /\ IdleRace
    /\ IdleMail
    /\ IdleProp

\* one invocation runs from its call to its return or raise: parse_land_title
\* has no suspension point, and parse_description calls it on the event loop
ParseLandTitle(k) ==
    /\ inv # <<>>
    /\ inv[k].pc = "called"
    /\ LET Return(r) ==
               /\ inv' = [inv EXCEPT ![k] = [text |-> inv[k].text, pc |-> "done",
                                             out |-> Respond(r.out)]]
               /\ rng' = r.rng
       IN Return(ParseLandTitleIn(inv[k].text, rng))
    /\ UNCHANGED <<parseVars, segVars, geoVars, docVars, authVars, acctVars, raceVars, mailVars, propVars>>

SpecInvocations == InitInvocations /\ [][\E k \in Invocations : ParseLandTitle(k)]_vars

\* ------------------------------------------------------------------------
\* The segmenter alone: extract_technical_description_spanning_pages
\* ------------------------------------------------------------------------

\* what is written before the start phrase
PreText ==
    [none    |-> <<>>,
     prose   |-> <<"lot", " ", "1", "\n">>,
     header  |-> <<"tct", " ", "no", ".", " ", "1", "\n">>,
     closing |-> <<"to", " ", "point", " ", "of", " ", "beginning", ".", " ">>,
     stop    |-> <<"owner", ":", " ", "JUAN", "\n">>]

\* what follows the first leg, piece by piece
PieceText ==
    [closingA |-> <<" ", "to", " ", "point", " ", "of", " ", "beginning">>,
     closingB |-> <<" ", "returning", " ", "to", " ", "the", " ", "point", " ", "of", " ", "beginning">>,
     stopA    |-> <<"\n", "owner", ":", " ", "JUAN">>,
     stopB    |-> <<" ", "area", ":", " ", "5">>,
     closingC |-> <<"\n", "to", " ", "the", " ", "point", " ", "of", " ", "beginning">>,
     leg      |-> LegText.good2]

\* what is written last
PostText ==
    [none   |-> <<>>,
     period |-> <<".">>,
     start  |-> <<"\n", "beginning", " ", "at", " ", "a", " ", "point", " ", "x">>]

DocCore == HeadPlain \o LegText.good1

PieceSeqs ==
    {<<>>} \cup {<<x>> : x \in DOMAIN PieceText}
    \cup {<<x, y>> : x \in DOMAIN PieceText, y \in DOMAIN PieceText}

RECURSIVE PiecesText(_)
PiecesText(ps) == IF ps = <<>> THEN <<>> ELSE PieceText[ps[1]] \o PiecesText(Tail(ps))

Documents ==
    {[kind |-> "doc", pre |-> a, pieces |-> ps, post |-> z] :
        a \in DOMAIN PreText, ps \in PieceSeqs, z \in DOMAIN PostText}

DocumentText(d) == PreText[d.pre] \o DocCore \o PiecesText(d.pieces) \o PostText[d.post]

InitSegmenter ==
    /\ \E d \in Documents : doc = DocumentText(d) /\ docShape = d
    /\ tdOut = [pc |-> "called", td_span |-> None, td_final |-> None]
    /\ IdleParser
    /\ IdleTokenizer
    /\ IdleGeometry
    /\ IdleInvocations
    /\ IdleAuth
    /\ IdleAcct
    /\ IdleRace
    /\ IdleMail
    /\ IdleProp

\* extract_technical_description_spanning_pages(doc), lines 309-312
ExtractSpan ==
    /\ tdOut.pc = "called"
    /\ \E cleaned \in {StripHeadersFootersAndContinuations(doc)} :
          \E td_span \in {SliceBetweenAnchors(cleaned)} :
             tdOut' = [pc |-> IF td_span = None THEN "raised" ELSE "returned",
                       td_span |-> td_span,
                       td_final |-> IF td_span = None THEN None
                                    ELSE Some(FilterIntrudingNonTdLines(td_span[1]))]
    /\ UNCHANGED <<doc, docShape, parseVars, segVars, geoVars, invVars, authVars, acctVars, raceVars, mailVars, propVars>>

SpecSegmenter == InitSegmenter /\ [][ExtractSpan]_vars

\* ------------------------------------------------------------------------
\* Sessions: POST /api/v1/auth/login, /refresh and /logout
\* ------------------------------------------------------------------------

\* users.id of the users registered
Users == {1, 2}

\* the most rows the table refresh_tokens gets in a run
MaxTokens == 2

\* The value of the refresh cookie of a request is None (no cookie) or
\* Some(token).  A token is what jwt.decode makes of it: the claims sub, type
\* and jti of a token signed by _create_token, or Junk for a string
\* jwt.decode rejects with a JWTError (malformed, wrong signature, expired).
Junk == [type |-> "junk", sub |-> 0, jti |-> 0]

\* create_refresh_token(user_id, role, jti)
create_refresh_token(user_id, jti) == [type |-> "refresh", sub |-> user_id, jti |-> jti]

\* create_access_token(user_id, role): the jti is a uuid no row carries
create_access_token(user_id) == [type |-> "access", sub |-> user_id, jti |-> 0]

\* jwt.decode(cookie, SECRET_KEY, ...) and TokenPayload(**payload): None
\* stands for the JWTError raised
TokenPayload(cookie) == IF cookie.type = "junk" THEN None ELSE Some(cookie)

\* the tokens signed so far: the refresh token of every row, and the access
\* tokens handed out along with them
Issued(rows) ==
    {create_refresh_token(rows[k].user_id, rows[k].jti) : k \in DOMAIN rows}
    \cup {create_access_token(rows[k].user_id) : k \in DOMAIN rows}

\* the cookie values a client may send
Cookies(rows) == {None, Some(Junk)} \cup {Some(t) : t \in Issued(rows)}

\* RefreshToken(jti=jti, user_id=user.id, is_revoked=False, ...): rotated_at
\* and reused_at say whether the column is set
NewRow(jti, user_id) ==
    [jti |-> jti, user_id |-> user_id, is_revoked |-> FALSE,
     rotated_at |-> FALSE, reused_at |-> FALSE]

\* uuid.uuid4().hex: a jti no row carries
FreshJti(rows) == Len(rows) + 1

\* db.query(RefreshToken).filter(RefreshToken.jti == jti).first(): the index
\* of the row, 0 when there is none
FirstRow(rows, jti) ==
    IF \E k \in DOMAIN rows : rows[k].jti = jti
    THEN CHOOSE k \in DOMAIN rows : rows[k].jti = jti /\ \A j \in 1..(k - 1) : rows[j].jti # jti
    ELSE 0

Answer(op, cookie, status, set_cookie) ==
    [op |-> op, cookie |-> cookie, status |-> status, set_cookie |-> set_cookie]

InitAuth ==
    /\ refresh_tokens = <<>>
    /\ is_active \in [Users -> BOOLEAN]
    /\ last = Answer("none", None, 0, <<"keep">>)
    /\ loggedOut = {}
    /\ IdleParser
    /\ IdleTokenizer
    /\ IdleGeometry
    /\ IdleInvocations
    /\ IdleSegmenter
    /\ IdleAcct
    /\ IdleRace
    /\ IdleMail
    /\ IdleProp

\* login(payload, response, request, db).  cred says what the credentials
\* are: "wrong" (no such user or wrong password), "unverified" (the user's
\* email is not verified; the verification token issued is not part of this
\* state) or "ok".
Login(u, cred) ==
    /\ cred = "ok" => Len(refresh_tokens) < MaxTokens
    /\ IF cred = "wrong"
       THEN /\ last' = Answer("login", None, 401, <<"keep">>)
            /\ UNCHANGED refresh_tokens
       ELSE IF cred = "unverified"
       THEN /\ last' = Answer("login", None, 403, <<"keep">>)
            /\ UNCHANGED refresh_tokens
       ELSE /\ refresh_tokens' = Append(refresh_tokens, NewRow(FreshJti(refresh_tokens), u))
            /\ last' = Answer("login", None, 200,
                              <<"set", create_refresh_token(u, FreshJti(refresh_tokens))>>)
    /\ UNCHANGED <<is_active, loggedOut, parseVars, segVars, geoVars, invVars, docVars, acctVars, raceVars, mailVars, propVars>>

\* a variant of RolledBack that commits what the session holds
RolledBackNot(rows, pending) == pending

\* db.rollback() of line 503: the rows of the table, pending being the rows
\* as the session holds them
RolledBack(rows, pending) == rows

\* refresh_token(request, response, db): the rows after the request, the
\* status and the cookie header of the response
RefreshOutcome(rows, active, cookie) ==
    LET Reject(rs) == [rows |-> rs, status |-> 401, set_cookie |-> <<"keep">>]
        \* lines 498-499, not flushed
        Marked(k) == [rows EXCEPT ![k].is_revoked = TRUE, ![k].rotated_at = TRUE]
        Rotate(data, k) ==
            IF data.sub \notin DOMAIN active \/ ~active[data.sub]
            THEN Reject(RolledBack(rows, Marked(k)))
            ELSE [rows |-> Append(Marked(k),
                                  NewRow(FreshJti(rows), data.sub)),
                  status |-> 200,
                  set_cookie |-> <<"set", create_refresh_token(data.sub, FreshJti(rows))>>]
        Row(data, k) ==
            IF k = 0 THEN Reject(rows)
            ELSE IF rows[k].is_revoked THEN Reject([rows EXCEPT ![k].reused_at = TRUE])
            ELSE Rotate(data, k)
        Data(data) ==
            IF data = None THEN Reject(rows)
            ELSE IF data[1].type # "refresh" THEN Reject(rows)
            ELSE Row(data[1], FirstRow(rows, data[1].jti))
    IN IF cookie = None THEN Reject(rows) ELSE Data(TokenPayload(cookie[1]))

Refresh(cookie) ==
    /\ \E r \in {RefreshOutcome(refresh_tokens, is_active, cookie)} :
          /\ Len(r.rows) <= MaxTokens
          /\ refresh_tokens' = r.rows
          /\ last' = Answer("refresh", cookie, r.status, r.set_cookie)
    /\ UNCHANGED <<is_active, loggedOut, parseVars, segVars, geoVars, invVars, docVars, acctVars, raceVars, mailVars, propVars>>

\* a variant of RevokedOnLogout that revokes nothing
RevokedOnLogoutNone(rows, data) == rows

\* lines 542-552 of logout: revoke the row of the token presented, then
\* every row of the user int(data.sub) that is not revoked
RevokedOnLogout(rows, data) ==
    LET All(rs) ==
            [k \in DOMAIN rs |->
                IF rs[k].user_id = data.sub /\ ~rs[k].is_revoked
                THEN [rs[k] EXCEPT !.is_revoked = TRUE] ELSE rs[k]]
        This(k) ==
            IF k # 0 /\ ~rows[k].is_revoked
            THEN All([rows EXCEPT ![k].is_revoked = TRUE]) ELSE All(rows)
    IN This(FirstRow(rows, data.jti))

\* logout(request, response, db): the rows after the request; the response
\* is LogoutResponse() with the cookie deleted in every case
LogoutRows(rows, cookie) ==
    LET Data(data) == IF data = None THEN rows ELSE RevokedOnLogout(rows, data[1])
    IN IF cookie = None THEN rows ELSE Data(TokenPayload(cookie[1]))

\* the jti of the row a cookie is the refresh token of, if it is one
PresentedJti(rows, cookie) ==
    IF cookie # None /\ cookie[1].type = "refresh" /\ FirstRow(rows, cookie[1].jti) # 0
    THEN {cookie[1].jti} ELSE {}

Logout(cookie) ==
    /\ refresh_tokens' = LogoutRows(refresh_tokens, cookie)
    /\ last' = Answer("logout", cookie, 200, <<"delete">>)
    /\ loggedOut' = loggedOut \cup PresentedJti(refresh_tokens, cookie)
    /\ UNCHANGED <<is_active, parseVars, segVars, geoVars, invVars, docVars, acctVars, raceVars, mailVars, propVars>>

NextAuth ==
    \/ \E u \in Users, cred \in {"ok", "wrong", "unverified"} : Login(u, cred)
    \/ \E cookie \in Cookies(refresh_tokens) : Refresh(cookie)
    \/ \E cookie \in Cookies(refresh_tokens) : Logout(cookie)

SpecAuth == InitAuth /\ [][NextAuth]_vars

\* ------------------------------------------------------------------------
\* One-time codes: POST /api/v1/auth/verify/request, /verify/confirm,
\* /verify/change-mobile/request and /verify/change-mobile/confirm
\* ------------------------------------------------------------------------

\* users.id of the accounts; the requests with an access token are those of
\* the Callers, the other account holds a mobile number and is verified
Accounts == {1, 2}
Callers == {1}

\* mobile numbers, in the form normalize_ph_mobile leaves as it is (a
\* leading "+")
Mobiles == {"+631", "+632", "+633", "+634"}

\* the values _gen_otp_code draws here, and the codes a client submits
Codes == {"111111"}
Guesses == Codes \cup {"000000"}

\* settings: otp_ttl_minutes, otp_max_attempts, and
\* otp_resend_cooldown_seconds in minutes
OTP_TTL_MINUTES == 5
OTP_MAX_ATTEMPTS == 5
OTP_RESEND_COOLDOWN_MINUTES == 1

\* the most rows of otp_codes in a run, for the four handlers together and
\* for the change of mobile number alone
MaxOtps == 1
MaxChangeOtps == 2

\* The handlers read the clock only to compare it with the expires_at and
\* the last_sent_at of a row, both set from the clock when the row is made
\* and never written again.  A row keeps its age, the minutes passed since it
\* was made, up to the first minute at which it has expired:
\*   now > row.expires_at                         is  age > OTP_TTL_MINUTES
\*   (now - row.last_sent_at) < the cooldown      is  age < the cooldown
\* OtpCode(user_id=..., code_hash=_hash_otp(code), purpose=..., ...): code
\* stands for its hash, context_mobile "" for NULL
NewOtp(user_id, purpose, code, context_mobile) ==
    [user_id |-> user_id, purpose |-> purpose, code |-> code,
     context_mobile |-> context_mobile, age |-> 0,
     attempts_used |-> 0, max_attempts |-> OTP_MAX_ATTEMPTS, is_used |-> FALSE]

\* the rows d minutes later
Aged(rows, d, ttl) ==
    [k \in DOMAIN rows |-> [rows[k] EXCEPT !.age = Min2(@ + d, ttl + 1)]]

\* _verify_otp(code, code_hash)
verify_otp(code, code_hash) == code = code_hash

\* query(...).order_by(OtpCode.created_at.desc()).first() over the rows K:
\* the index of the newest row, 0 when there is none
Newest(K) == IF K = {} THEN 0 ELSE CHOOSE k \in K : \A j \in K : j <= k

\* the rows of a user with a purpose
OtpsOf(rows, u, purpose) ==
    {k \in DOMAIN rows : rows[k].user_id = u /\ rows[k].purpose = purpose}

\* db.query(User).filter(User.mobile == m).first(): the user id, 0 for None
UserByMobile(mob, m) ==
    IF \E u \in DOMAIN mob : mob[u] = m
    THEN CHOOSE u \in DOMAIN mob : mob[u] = m /\ \A v \in DOMAIN mob : mob[v] = m => u <= v
    ELSE 0

\* `... < OTP_RESEND_COOLDOWN_SECONDS` on the newest row k (0: no row)
InCooldown(rows, k) == k # 0 /\ rows[k].age < OTP_RESEND_COOLDOWN_MINUTES

\* `OtpCode.is_used is False` of _create_change_mobile_otp: the identity test
\* of a column object against False, which Python evaluates to False before
\* the query is built
IsUsedIsFalse == FALSE

\* _create_or_replace_otp(db, user)
create_or_replace_otp(rows, u, code) ==
    Append([k \in DOMAIN rows |->
               IF rows[k].user_id = u /\ rows[k].purpose = "register" /\ ~rows[k].is_used
               THEN [rows[k] EXCEPT !.is_used = TRUE] ELSE rows[k]],
           NewOtp(u, "register", code, ""))

\* _create_change_mobile_otp(db, user, new_mobile_norm)
create_change_mobile_otp(rows, u, code, new_mobile) ==
    Append([k \in DOMAIN rows |->
               IF rows[k].user_id = u /\ rows[k].purpose = "change_mobile" /\ IsUsedIsFalse
               THEN [rows[k] EXCEPT !.is_used = TRUE] ELSE rows[k]],
           NewOtp(u, "change_mobile", code, new_mobile))

\* the handler that answered and the status of its response
AcctAnswer(op, status) == [op |-> op, status |-> status]

InitOtp ==
    /\ otp_codes = <<>>
    /\ email_verify_tokens = <<>>
    /\ mobile = [u \in Accounts |-> IF u = 1 THEN "+631" ELSE "+632"]
    /\ is_verified \in {f \in [Accounts -> BOOLEAN] : \A u \in Accounts \ Callers : f[u]}
    /\ acctLast = AcctAnswer("none", 0)
    /\ IdleParser
    /\ IdleTokenizer
    /\ IdleGeometry
    /\ IdleInvocations
    /\ IdleSegmenter
    /\ IdleAuth
    /\ IdleRace
    /\ IdleMail
    /\ IdleProp

OutsideAcct == <<parseVars, segVars, geoVars, invVars, docVars, authVars, raceVars, mailVars, propVars>>

\* a minute passes
Tick ==
    /\ otp_codes' = Aged(otp_codes, 1, OTP_TTL_MINUTES)
    /\ UNCHANGED <<email_verify_tokens, mobile, is_verified, acctLast, OutsideAcct>>

\* request_verification(body, db): m is body.mobile, code what _gen_otp_code
\* draws
RequestVerification(m, code) ==
    LET u == UserByMobile(mobile, m)
        Issue(k) ==
            IF InCooldown(otp_codes, k)
            THEN /\ acctLast' = AcctAnswer("request_verification", 429)
                 /\ UNCHANGED otp_codes
            ELSE /\ otp_codes' = create_or_replace_otp(otp_codes, u, code)
                 /\ acctLast' = AcctAnswer("request_verification", 200)
    IN /\ IF u = 0
          THEN /\ acctLast' = AcctAnswer("request_verification", 404)
               /\ UNCHANGED otp_codes
          ELSE IF is_verified[u]
          THEN /\ acctLast' = AcctAnswer("request_verification", 200)
               /\ UNCHANGED otp_codes
          ELSE Issue(Newest(OtpsOf(otp_codes, u, "register")))
       /\ UNCHANGED <<email_verify_tokens, mobile, is_verified, OutsideAcct>>

\* the newest row of a user with a purpose that is not used, 0 for None
NewestActive(rows, u, purpose) ==
    Newest({k \in OtpsOf(rows, u, purpose) : ~rows[k].is_used})

\* a variant of TooManyAttempts that lets every attempt through
TooManyAttemptsNever(row) == FALSE

\* `if row.attempts_used >= row.max_attempts`
TooManyAttempts(row) == row.attempts_used >= row.max_attempts

\* the checks confirm_verification and confirm_change_mobile make on the row
\* k before and after _verify_otp: the rows afterwards and the verdict
CheckCode(rows, k, code) ==
    IF rows[k].age > OTP_TTL_MINUTES
    THEN [rows |-> [rows EXCEPT ![k].is_used = TRUE], verdict |-> "OTP expired"]
    ELSE IF TooManyAttempts(rows[k])
    THEN [rows |-> [rows EXCEPT ![k].is_used = TRUE], verdict |-> "Too many attempts"]
    ELSE IF verify_otp(code, rows[k].code)
    THEN [rows |-> [rows EXCEPT ![k].attempts_used = @ + 1], verdict |-> "ok"]
    ELSE [rows |-> [rows EXCEPT ![k].attempts_used = @ + 1], verdict |-> "Incorrect code"]

\* confirm_verification(body, db): m is body.mobile, code is body.code
ConfirmVerification(m, code) ==
    LET u == UserByMobile(mobile, m)
        Reject(status) ==
            /\ acctLast' = AcctAnswer("confirm_verification", status)
            /\ UNCHANGED <<otp_codes, is_verified>>
        Checked(k, c) ==
            IF c.verdict = "ok"
            THEN /\ otp_codes' = [c.rows EXCEPT ![k].is_used = TRUE]
                 /\ is_verified' = [is_verified EXCEPT ![u] = TRUE]
                 /\ acctLast' = AcctAnswer("confirm_verification", 200)
            ELSE /\ otp_codes' = c.rows
                 /\ UNCHANGED is_verified
                 /\ acctLast' = AcctAnswer("confirm_verification", 400)
        Row(k) ==
            IF k = 0 THEN Reject(400)
            ELSE Checked(k, CheckCode(otp_codes, k, code))
    IN /\ IF u = 0 THEN Reject(404)
          ELSE IF is_verified[u] THEN Reject(200)
          ELSE Row(NewestActive(otp_codes, u, "register"))
       /\ UNCHANGED <<email_verify_tokens, mobile, OutsideAcct>>

\* request_change_mobile(body, db, current_user): u is current_user, m is
\* body.new_mobile, code what _gen_otp_code draws
RequestChangeMobile(u, m, code) ==
    LET Answered(status) ==
            /\ acctLast' = AcctAnswer("request_change_mobile", status)
            /\ UNCHANGED otp_codes
    IN /\ IF mobile[u] = m THEN Answered(200)
          ELSE IF UserByMobile(mobile, m) # 0 THEN Answered(400)
          ELSE IF InCooldown(otp_codes, Newest(OtpsOf(otp_codes, u, "change_mobile")))
          THEN Answered(429)
          ELSE /\ otp_codes' = create_change_mobile_otp(otp_codes, u, code, m)
               /\ acctLast' = AcctAnswer("request_change_mobile", 200)
       /\ UNCHANGED <<email_verify_tokens, mobile, is_verified, OutsideAcct>>

\* confirm_change_mobile(body, db, current_user): u is current_user, m is
\* body.new_mobile, code is body.code
ConfirmChangeMobile(u, m, code) ==
    LET Reject ==
            /\ acctLast' = AcctAnswer("confirm_change_mobile", 400)
            /\ UNCHANGED <<otp_codes, mobile, is_verified>>
        Checked(k, c) ==
            IF c.verdict # "ok"
            THEN /\ otp_codes' = c.rows
                 /\ UNCHANGED <<mobile, is_verified>>
                 /\ acctLast' = AcctAnswer("confirm_change_mobile", 400)
            ELSE IF \E v \in DOMAIN mobile : mobile[v] = m /\ v # u
            THEN /\ otp_codes' = [c.rows EXCEPT ![k].is_used = TRUE]
                 /\ UNCHANGED <<mobile, is_verified>>
                 /\ acctLast' = AcctAnswer("confirm_change_mobile", 400)
            ELSE /\ otp_codes' = [c.rows EXCEPT ![k].is_used = TRUE]
                 /\ mobile' = [mobile EXCEPT ![u] = m]
                 /\ is_verified' = [is_verified EXCEPT ![u] = TRUE]
                 /\ acctLast' = AcctAnswer("confirm_change_mobile", 200)
        Row(k) ==
            IF k = 0 THEN Reject
            ELSE IF otp_codes[k].context_mobile # m THEN Reject
            ELSE Checked(k, CheckCode(otp_codes, k, code))
    IN /\ Row(NewestActive(otp_codes, u, "change_mobile"))
       /\ UNCHANGED <<email_verify_tokens, OutsideAcct>>

\* the requests, in a run that makes at most n rows of otp_codes
RequestVerificationUpTo(n) ==
    \E m \in Mobiles, code \in Codes : RequestVerification(m, code) /\ Len(otp_codes') <= n
ConfirmVerificationAny ==
    \E m \in Mobiles, code \in Guesses : ConfirmVerification(m, code)
RequestChangeMobileUpTo(n) ==
    \E u \in Callers, m \in Mobiles, code \in Codes :
        RequestChangeMobile(u, m, code) /\ Len(otp_codes') <= n
ConfirmChangeMobileAny ==
    \E u \in Callers, m \in Mobiles, code \in Guesses : ConfirmChangeMobile(u, m, code)

NextOtp ==
    \/ Tick
    \/ RequestVerificationUpTo(MaxOtps)
    \/ ConfirmVerificationAny
    \/ RequestChangeMobileUpTo(MaxOtps)
    \/ ConfirmChangeMobileAny

SpecOtp == InitOtp /\ [][NextOtp]_vars

NextChangeMobile ==
    \/ Tick
    \/ RequestChangeMobileUpTo(MaxChangeOtps)
    \/ ConfirmChangeMobileAny

SpecChangeMobile == InitOtp /\ [][NextChangeMobile]_vars

\* ------------------------------------------------------------------------
\* Concurrent requests to POST /api/v1/auth/refresh
\* ------------------------------------------------------------------------

\* refresh_token is a plain def: each request runs in a worker thread with a
\* session of its own (get_db, autoflush=False).  A request reads the row of
\* its token at line 491 and writes nothing until db.commit() at line 520,
\* which flushes the UPDATE of that row and the INSERT of the new one.  The
\* rejection of a revoked token writes reused_at and commits at once (lines
\* 493-496).
Racers == {"a", "b"}

InitRace ==
    /\ \E u \in Users : refresh_tokens = <<NewRow(1, u)>>
    /\ is_active \in [Users -> BOOLEAN]
    /\ last = [op |-> "none"]
    /\ loggedOut = {}
    /\ racers \in [Racers -> {[cookie |-> c, pc |-> "start", row |-> 0, status |-> 0,
                               set_cookie |-> <<"keep">>] : c \in Cookies(refresh_tokens)}]
    /\ IdleParser
    /\ IdleTokenizer
    /\ IdleGeometry
    /\ IdleInvocations
    /\ IdleSegmenter
    /\ IdleAcct
    /\ IdleMail
    /\ IdleProp

OutsideRace == <<parseVars, segVars, geoVars, invVars, docVars, acctVars, mailVars, propVars>>

\* lines 478-504: the request r reads its cookie, the row of the token and
\* the user, and is rejected or goes on to rotate the row it read
RefreshRead(r) ==
    LET me == racers[r]
        Rejected(rows) ==
            /\ refresh_tokens' = rows
            /\ racers' = [racers EXCEPT ![r].pc = "done", ![r].status = 401]
        Row(data, k) ==
            IF k = 0 THEN Rejected(refresh_tokens)
            ELSE IF refresh_tokens[k].is_revoked
            THEN Rejected([refresh_tokens EXCEPT ![k].reused_at = TRUE])
            ELSE IF ~is_active[data.sub] THEN Rejected(refresh_tokens)
            ELSE /\ racers' = [racers EXCEPT ![r].pc = "rotating", ![r].row = k]
                 /\ UNCHANGED refresh_tokens
        Data(data) ==
            IF data = None THEN Rejected(refresh_tokens)
            ELSE IF data[1].type # "refresh" THEN Rejected(refresh_tokens)
            ELSE Row(data[1], FirstRow(refresh_tokens, data[1].jti))
    IN /\ me.pc = "start"
       /\ IF me.cookie = None THEN Rejected(refresh_tokens)
          ELSE Data(TokenPayload(me.cookie[1]))
       /\ UNCHANGED <<is_active, last, loggedOut, OutsideRace>>

\* lines 509-525: the request r commits the rotation of the row it read and
\* the new row, and answers with the new cookie
RefreshCommit(r) ==
    LET me == racers[r]
        sub == refresh_tokens[me.row].user_id
    IN /\ me.pc = "rotating"
       /\ refresh_tokens' =
             Append([refresh_tokens EXCEPT ![me.row].is_revoked = TRUE,
                                           ![me.row].rotated_at = TRUE],
                    NewRow(FreshJti(refresh_tokens), sub))
       /\ racers' = [racers EXCEPT
             ![r].pc = "done", ![r].status = 200,
             ![r].set_cookie = <<"set", create_refresh_token(sub, FreshJti(refresh_tokens))>>]
       /\ UNCHANGED <<is_active, last, loggedOut, OutsideRace>>

NextRace ==
    \/ \E r \in Racers : RefreshRead(r)
    \/ \E r \in Racers : RefreshCommit(r)

SpecRace == InitRace /\ [][NextRace]_vars

\* ------------------------------------------------------------------------
\* Email verification: POST /api/v1/auth/register, /verify/email/request,
\* GET /verify/email, and the login of a user whose email is not verified
\* ------------------------------------------------------------------------

\* the addresses of the requests
Emails == {"a@x", "b@x"}

EMAIL_TOKEN_TTL_MINUTES == 60 * 24

\* the most rows of email_verify_tokens in a run
MaxEmailTokens == 3

\* the time that passes in one step of the clock
EmailTickMinutes == EMAIL_TOKEN_TTL_MINUTES \div 2

\* EmailVerifyToken(user_id=user.id, token=token, expires_at=...): the token
\* drawn by _gen_email_token is the index of the row, as no two rows carry
\* the same; age as for otp_codes, `now > row.expires_at` being
\* age > EMAIL_TOKEN_TTL_MINUTES
NewEmailToken(user_id) == [user_id |-> user_id, age |-> 0, is_used |-> FALSE]

\* a variant of create_email_verify_token that leaves the earlier tokens as
\* they are
create_email_verify_token_only(rows, u) == Append(rows, NewEmailToken(u))

\* _create_email_verify_token(db, user)
create_email_verify_token(rows, u) ==
    Append([k \in DOMAIN rows |->
               IF rows[k].user_id = u /\ ~rows[k].is_used
               THEN [rows[k] EXCEPT !.is_used = TRUE] ELSE rows[k]],
           NewEmailToken(u))

\* db.query(User).filter(User.email == e).first(): the user id, 0 for None
UserByEmail(em, e) ==
    IF \E u \in DOMAIN em : em[u] = e THEN CHOOSE u \in DOMAIN em : em[u] = e ELSE 0

\* the status of a handler that ends with _send_verification_email: smtplib
\* raises when the mail is not delivered, after the commit
AfterSend(delivered, status) == IF delivered THEN status ELSE 500

InitEmail ==
    /\ email = <<>>
    /\ is_verified = <<>>
    /\ mobile = <<>>
    /\ is_active = <<>>
    /\ email_verify_tokens = <<>>
    /\ otp_codes = <<>>
    /\ acctLast = AcctAnswer("none", 0)
    /\ refresh_tokens = <<>>
    /\ last = Answer("none", None, 0, <<"keep">>)
    /\ loggedOut = {}
    /\ IdleParser
    /\ IdleTokenizer
    /\ IdleGeometry
    /\ IdleInvocations
    /\ IdleSegmenter
    /\ IdleRace
    /\ IdleProp

OutsideEmail == <<parseVars, segVars, geoVars, invVars, docVars, raceVars, otp_codes, loggedOut, propVars>>

\* half a day passes
EmailTick ==
    /\ email_verify_tokens' = Aged(email_verify_tokens, EmailTickMinutes, EMAIL_TOKEN_TTL_MINUTES)
    /\ UNCHANGED <<email, is_verified, mobile, is_active, acctLast, refresh_tokens, last,
                   OutsideEmail>>

\* register(payload, db): e is payload.email; payload.mobile is None
Register(e, delivered) ==
    /\ IF UserByEmail(email, e) # 0
       THEN /\ acctLast' = AcctAnswer("register", 400)
            /\ UNCHANGED <<email, is_verified, mobile, is_active, email_verify_tokens>>
       ELSE /\ email' = Append(email, e)
            /\ is_verified' = Append(is_verified, FALSE)
            /\ mobile' = Append(mobile, "")
            /\ is_active' = Append(is_active, TRUE)
            /\ email_verify_tokens' =
                   create_email_verify_token(email_verify_tokens, Len(email) + 1)
            /\ acctLast' = AcctAnswer("register", AfterSend(delivered, 201))
    /\ UNCHANGED <<refresh_tokens, last, OutsideEmail>>

\* email_verify_request(body, db): e is body.email
EmailVerifyRequest(e, delivered) ==
    /\ IF UserByEmail(email, e) = 0
       THEN /\ acctLast' = AcctAnswer("email_verify_request", 404)
            /\ UNCHANGED email_verify_tokens
       ELSE IF is_verified[UserByEmail(email, e)]
       THEN /\ acctLast' = AcctAnswer("email_verify_request", 200)
            /\ UNCHANGED email_verify_tokens
       ELSE /\ email_verify_tokens' =
                   create_email_verify_token(email_verify_tokens, UserByEmail(email, e))
            /\ acctLast' = AcctAnswer("email_verify_request", AfterSend(delivered, 200))
    /\ UNCHANGED <<email, is_verified, mobile, is_active, refresh_tokens, last, OutsideEmail>>

\* email_verify_confirm(token, db): token is the index of a row, or a
\* string no row carries
EmailVerifyConfirm(token) ==
    /\ IF token \notin DOMAIN email_verify_tokens \/ email_verify_tokens[token].is_used
       THEN /\ acctLast' = AcctAnswer("email_verify_confirm", 400)
            /\ UNCHANGED <<email_verify_tokens, is_verified>>
       ELSE IF email_verify_tokens[token].age > EMAIL_TOKEN_TTL_MINUTES
       THEN /\ email_verify_tokens' = [email_verify_tokens EXCEPT ![token].is_used = TRUE]
            /\ acctLast' = AcctAnswer("email_verify_confirm", 400)
            /\ UNCHANGED is_verified
       ELSE /\ email_verify_tokens' = [email_verify_tokens EXCEPT ![token].is_used = TRUE]
            /\ is_verified' = [is_verified EXCEPT ![email_verify_tokens[token].user_id] = TRUE]
            /\ acctLast' = AcctAnswer("email_verify_confirm", 302)
    /\ UNCHANGED <<email, mobile, is_active, refresh_tokens, last, OutsideEmail>>

\* login(payload, response, request, db): e is payload.email, password_ok
\* what verify_password returns
LoginByEmail(e, password_ok, delivered) ==
    /\ IF UserByEmail(email, e) = 0 \/ ~password_ok
       THEN /\ last' = Answer("login", None, 401, <<"keep">>)
            /\ UNCHANGED <<email_verify_tokens, refresh_tokens>>
       ELSE IF ~is_verified[UserByEmail(email, e)]
       THEN /\ email_verify_tokens' =
                   create_email_verify_token(email_verify_tokens, UserByEmail(email, e))
            /\ last' = Answer("login", None, AfterSend(delivered, 403), <<"keep">>)
            /\ UNCHANGED refresh_tokens
       ELSE /\ refresh_tokens' =
                   Append(refresh_tokens,
                          NewRow(FreshJti(refresh_tokens), UserByEmail(email, e)))
            /\ last' = Answer("login", None, 200,
                              <<"set", create_refresh_token(UserByEmail(email, e),
                                                            FreshJti(refresh_tokens))>>)
            /\ UNCHANGED email_verify_tokens
    /\ UNCHANGED <<email, is_verified, mobile, is_active, acctLast, OutsideEmail>>

\* the requests, in a run within the bounds on the rows
WithinEmailBounds ==
    Len(email_verify_tokens') <= MaxEmailTokens /\ Len(refresh_tokens') <= MaxTokens

RegisterAny ==
    \E e \in Emails, delivered \in BOOLEAN : Register(e, delivered) /\ WithinEmailBounds
EmailVerifyRequestAny ==
    \E e \in Emails, delivered \in BOOLEAN : EmailVerifyRequest(e, delivered) /\ WithinEmailBounds
EmailVerifyConfirmAny ==
    \E token \in 0..MaxEmailTokens : EmailVerifyConfirm(token)
LoginByEmailAny ==
    \E e \in Emails, password_ok \in BOOLEAN, delivered \in BOOLEAN :
        LoginByEmail(e, password_ok, delivered) /\ WithinEmailBounds

NextEmail ==
    \/ EmailTick
    \/ RegisterAny
    \/ EmailVerifyRequestAny
    \/ EmailVerifyConfirmAny
    \/ LoginByEmailAny

SpecEmail == InitEmail /\ [][NextEmail]_vars

\* ------------------------------------------------------------------------
\* Properties: the handlers of /api/v1/properties
\* ------------------------------------------------------------------------

\* the users that call, get_current_user having let them in
Owners == {1, 2}

\* the most rows of properties, of images of one property and of
\* property_reports, and the most files written, in a run
MaxProperties == 1
MaxImages == 1
MaxReports == 1
MaxFiles == 2

\* data_url of an item of a request: a data URL of the MIME type written,
\* or "junk" for a string DATA_URL_RE does not match
DataUrls == {"image/png", "application/pdf", "junk"}
ItemLists ==
    {<<>>} \cup {<<x>> : x \in DataUrls} \cup {<<x, "junk">> : x \in DataUrls \ {"junk"}}

\* the bodies of replace_boundaries
BoundaryLists == {<<>>, <<"N 45 E, 10 m">>}

\* a row of properties: boundaries are the rows of property_boundaries of the
\* property, images the number of its rows of property_images
PropertyRow(user_id) == [user_id |-> user_id, boundaries |-> <<>>, images |-> 0]

\* a variant of NotYourProperty that lets every user in
NotYourPropertyNever(prop, user) == FALSE

\* `if prop.user_id != user.id`
NotYourProperty(prop, user) == prop.user_id # user

\* the calls of _save_data_url_strict in the loop of add_images and
\* add_reports: the number of files written, and whether the loop ended
\* without the 422 of lines 46-54
RECURSIVE SaveAll(_, _)
SaveAll(items, allowed_mimes) ==
    IF items = <<>> THEN [written |-> 0, ok |-> TRUE]
    ELSE IF items[1] \notin allowed_mimes THEN [written |-> 0, ok |-> FALSE]
    ELSE [written |-> SaveAll(Tail(items), allowed_mimes).written + 1,
          ok |-> SaveAll(Tail(items), allowed_mimes).ok]

PropAnswer(op, caller, property_id, status) ==
    [op |-> op, caller |-> caller, property_id |-> property_id, status |-> status]

\* the rows an administrator has made in the admin panel: properties of any
\* user, with no boundaries, images or reports yet
InitProperties ==
    /\ properties \in UNION {[1..n -> {PropertyRow(u) : u \in Owners}] : n \in 0..MaxProperties}
    /\ property_reports = <<>>
    /\ files = 0
    /\ propLast = PropAnswer("none", 0, 0, 0)
    /\ IdleParser
    /\ IdleTokenizer
    /\ IdleGeometry
    /\ IdleInvocations
    /\ IdleSegmenter
    /\ IdleAuth
    /\ IdleAcct
    /\ IdleRace
    /\ IdleMail

OutsideProp ==
    <<parseVars, segVars, geoVars, invVars, docVars, authVars, acctVars, raceVars, mailVars>>

\* the start of a handler that loads the property: the status it raises, 0
\* when it goes on
Refused(property_id, user) ==
    IF property_id \notin DOMAIN properties THEN 404
    ELSE IF NotYourProperty(properties[property_id], user) THEN 403
    ELSE 0

\* get_property(property_id, db, user)
GetProperty(user, property_id) ==
    /\ propLast' = PropAnswer("get_property", user, property_id,
                              IF Refused(property_id, user) # 0
                              THEN Refused(property_id, user) ELSE 200)
    /\ UNCHANGED <<properties, property_reports, files, OutsideProp>>

\* create_property(payload, db, user): PropertyCreate has no field user_id,
\* so line 123 raises AttributeError on every payload
CreateProperty(user) ==
    /\ propLast' = PropAnswer("create_property", user, 0, 500)
    /\ UNCHANGED <<properties, property_reports, files, OutsideProp>>

\* replace_boundaries(property_id, boundaries, db, user)
ReplaceBoundaries(user, property_id, boundaries) ==
    /\ IF Refused(property_id, user) # 0
       THEN /\ propLast' = PropAnswer("replace_boundaries", user, property_id,
                                      Refused(property_id, user))
            /\ UNCHANGED properties
       ELSE /\ properties' = [properties EXCEPT ![property_id].boundaries = boundaries]
            /\ propLast' = PropAnswer("replace_boundaries", user, property_id, 200)
    /\ UNCHANGED <<property_reports, files, OutsideProp>>

\* add_images(property_id, images, db, user)
AddImages(user, property_id, images) ==
    /\ IF Refused(property_id, user) # 0
       THEN /\ propLast' = PropAnswer("add_images", user, property_id,
                                      Refused(property_id, user))
            /\ UNCHANGED <<properties, files>>
       ELSE /\ files' = files + SaveAll(images, {"image/png"}).written
            /\ IF SaveAll(images, {"image/png"}).ok
               THEN /\ properties' = [properties EXCEPT ![property_id].images = @ + Len(images)]
                    /\ propLast' = PropAnswer("add_images", user, property_id, 200)
               ELSE /\ propLast' = PropAnswer("add_images", user, property_id, 422)
                    /\ UNCHANGED properties
    /\ UNCHANGED <<property_reports, OutsideProp>>

\* add_reports(property_id, reports, db, user)
AddReports(user, property_id, reports) ==
    /\ IF Refused(property_id, user) # 0
       THEN /\ propLast' = PropAnswer("add_reports", user, property_id,
                                      Refused(property_id, user))
            /\ UNCHANGED <<property_reports, files>>
       ELSE /\ files' = files + SaveAll(reports, {"application/pdf"}).written
            /\ IF SaveAll(reports, {"application/pdf"}).ok
               THEN /\ property_reports' =
                           property_reports
                           \o [k \in 1..Len(reports) |-> [property_id |-> property_id]]
                    /\ propLast' = PropAnswer("add_reports", user, property_id, 200)
               ELSE /\ propLast' = PropAnswer("add_reports", user, property_id, 422)
                    /\ UNCHANGED property_reports
    /\ UNCHANGED <<properties, OutsideProp>>

\* list_property_reports(property_id, db, user)
ListPropertyReports(user, property_id) ==
    /\ propLast' = PropAnswer("list_property_reports", user, property_id,
                              IF Refused(property_id, user) # 0
                              THEN Refused(property_id, user) ELSE 200)
    /\ UNCHANGED <<properties, property_reports, files, OutsideProp>>

\* download_report(property_id, report_id, db, user): on_disk is what
\* os.path.exists answers for the file of the report
DownloadReport(user, property_id, report_id, on_disk) ==
    /\ propLast' =
           PropAnswer("download_report", user, property_id,
                      IF Refused(property_id, user) # 0 THEN Refused(property_id, user)
                      ELSE IF report_id \notin DOMAIN property_reports
                              \/ property_reports[report_id].property_id # property_id
                      THEN 404
                      ELSE IF ~on_disk THEN 404
                      ELSE 200)
    /\ UNCHANGED <<properties, property_reports, files, OutsideProp>>

\* the requests, in a run within the bounds on the rows and the files
WithinPropBounds ==
    /\ \A p \in DOMAIN properties' : properties'[p].images <= MaxImages
    /\ Len(property_reports') <= MaxReports
    /\ files' <= MaxFiles

PropertyIds == 1..(MaxProperties + 1)

GetPropertyAny == \E u \in Owners, p \in PropertyIds : GetProperty(u, p)
CreatePropertyAny == \E u \in Owners : CreateProperty(u)
ReplaceBoundariesAny ==
    \E u \in Owners, p \in PropertyIds, bs \in BoundaryLists : ReplaceBoundaries(u, p, bs)
AddImagesAny ==
    \E u \in Owners, p \in PropertyIds, images \in ItemLists :
        AddImages(u, p, images) /\ WithinPropBounds
AddReportsAny ==
    \E u \in Owners, p \in PropertyIds, reports \in ItemLists :
        AddReports(u, p, reports) /\ WithinPropBounds
ListPropertyReportsAny == \E u \in Owners, p \in PropertyIds : ListPropertyReports(u, p)
DownloadReportAny ==
    \E u \in Owners, p \in PropertyIds, r \in 1..(MaxReports + 1), on_disk \in BOOLEAN :
        DownloadReport(u, p, r, on_disk)

NextProperties ==
    \/ GetPropertyAny
    \/ CreatePropertyAny
    \/ ReplaceBoundariesAny
    \/ AddImagesAny
    \/ AddReportsAny
    \/ ListPropertyReportsAny
    \/ DownloadReportAny

SpecProperties == InitProperties /\ [][NextProperties]_vars

\* ------------------------------------------------------------------------
\* The service: each run serves one of the three operations
\* ------------------------------------------------------------------------

Init == InitParse \/ InitTokenizer \/ InitGeometry

Next == ParseDescription \/ ParseSegment \/ BoundariesStep \/ BoundariesReturn

Spec == Init /\ [][Next]_vars
\* ------------------------------------------------------------------------
\* Properties of the parsing endpoint
\* ------------------------------------------------------------------------

Sent == phase = "sent"

\* the calls the legs ls say, in the order written
RECURSIVE CallsOf(_)
CallsOf(ls) == IF ls = <<>> THEN <<>> ELSE <<LegCall[ls[1]]>> \o CallsOf(Tail(ls))

InLegs(l) == \E k \in 1..Len(shape.legs) : shape.legs[k] = l
LegsAmong(L) == \A k \in 1..Len(shape.legs) : shape.legs[k] \in L

\* C1: parse_land_title never returns with an empty list of boundaries: a
\* request is answered with an error, or with at least one boundary call.
C1_BoundariesNonEmpty ==
    Sent /\ resp.status = 200 => resp.boundaries # <<>>

\* legs that say a bearing with a degree marker and a distance, written in
\* lower case after "thence" or ";", with no seconds
PlainLegs == {"good1", "good2", "good3", "zero"}
\* legs in which no bearing is recognised
NoBearingLegs == {"noise", "unmarked"}

\* C4 as claimed: every corner part that does not give both a bearing and a
\* distance, the part with a bearing and no distance included, is dropped,
\* and the calls of the other parts are returned.
C4_EveryFailingPartDropped ==
    Sent /\ shape.kind = "legs" /\ LegsAmong(PlainLegs \cup NoBearingLegs \cup {"nodist"})
    => /\ resp.status = 200
       /\ resp.boundaries = CallsOf(SelectSeq(shape.legs, LAMBDA l : l \in PlainLegs))

\* C4 amended: a corner part in which no bearing is recognised is dropped and
\* the calls of the other parts are returned; a corner part with a bearing
\* and no distance makes the whole parse fail with DistanceNotFound.
C4_NoBearingPartDropped ==
    Sent /\ shape.kind = "legs" /\ LegsAmong(PlainLegs \cup NoBearingLegs \cup {"nodist"})
    => IF InLegs("nodist")
       THEN resp.status = 400 /\ resp.err = "DistanceNotFound" /\ resp.boundaries = <<>>
       ELSE /\ resp.status = 200
            /\ resp.boundaries = CallsOf(SelectSeq(shape.legs, LAMBDA l : l \in PlainLegs))

C4_Witness ==
    /\ Sent /\ shape.kind = "legs" /\ shape.legs = <<"noise", "good1">>
    /\ resp.status = 200 /\ Len(resp.boundaries) = 1

\* the fragment has been tokenized
Tokenized == fragShape.kind = "frag" /\ fragOut.err # "idle"

\* C5: parse_segment raises DistanceNotFound when a bearing matches and no
\* number followed by m comes after it, and parse_land_title hands the error
\* on: a request whose first failing corner part is a bearing without a
\* distance is answered with the DistanceNotFound error and no result.
C5_DistanceNotFoundPropagates ==
    /\ Tokenized /\ fragShape.marker # "blank" /\ fragShape.dist = "none"
       => fragOut = [b |-> None, d |-> None, err |-> "DistanceNotFound"]
    /\ Sent /\ shape.kind = "legs"
       /\ (\E k \in 1..Len(shape.legs) :
              /\ shape.legs[k] = "nodist"
              /\ \A j \in 1..(k - 1) : shape.legs[j] # "badnum")
       => /\ resp.status = 400 /\ resp.err = "DistanceNotFound"
          /\ resp.boundaries = <<>> /\ resp.tie_point = <<>>

C5_Witness ==
    /\ Sent /\ shape.kind = "legs" /\ shape.legs = <<"good1", "nodist">>
    /\ resp.status = 400 /\ resp.err = "DistanceNotFound"

\* a fragment made of an N/S letter, a degree value, a minute value, the
\* letter E and a number with m right after it, with blanks between them
SpacedFragment ==
    Tokenized /\ fragShape.spaced /\ fragShape.ew = "east" /\ fragShape.dist = "glued"

\* the values written in the fragment
WrittenValues ==
    [b |-> Some([ns |-> fragShape.ns,
                 degrees |-> DigitsValue(fragShape.deg),
                 minutes |-> DigitsValue(fragShape.min),
                 seconds |-> None,
                 ew |-> Some("E")]),
     d |-> Some(12050),
     err |-> ""]

\* C6 as claimed: a fragment as in "N 45 30 E 120.50m", with no degree
\* marker, gives the values written in it.
C6_UnmarkedFragmentYieldsValues ==
    SpacedFragment /\ fragShape.marker = "blank" => fragOut = WrittenValues

\* C6 amended: with a degree marker after the degree value (the degree sign,
\* "deg." or a hyphen) the fragment gives the values written in it, seconds
\* null; with no degree marker no bearing is recognised and the fragment
\* gives neither a bearing nor a distance.
C6_MarkedFragmentYieldsValues ==
    SpacedFragment
    => IF fragShape.marker = "blank"
       THEN fragOut = [b |-> None, d |-> None, err |-> ""]
       ELSE fragOut = WrittenValues

C6_Witness ==
    /\ frag = <<"N", " ", "4", "5", " ", "3", "0", " ", "E", " ",
                "1", "2", "0", ".", "5", "0", "m">>
    /\ fragOut = [b |-> None, d |-> None, err |-> ""]

\* C7: a document made of a start phrase, a tie fragment with one "from" and
\* the tie-point name, k >= 1 well-formed legs and a closing phrase is
\* answered with that name and exactly the k calls the legs say, in order.
C7_WellFormedDocumentParsed ==
    Sent /\ shape.kind = "legs" /\ shape.legs # <<>> /\ LegsAmong(WellFormedLegs)
    /\ shape.tail = TailClosing
    => /\ resp.status = 200
       /\ resp.tie_point = HeadName
       /\ resp.boundaries = CallsOf(shape.legs)

Failed(e) == resp.status = 400 /\ resp.err = e /\ resp.boundaries = <<>>

\* C8 as claimed: a text that is not empty and in which no start phrase
\* occurs is answered with NoAnchorFound.
C8_NoStartPhraseInText ==
    Sent /\ ~ IsBlank(req) /\ StartSearch(req) = None => Failed("NoAnchorFound")

\* C8 amended: a text that is not empty or blank and in which no start phrase
\* occurs once headers, footers and continuation notes are removed and words
\* hyphenated over a line break are joined is answered with NoAnchorFound,
\* and with no result.
C8_NoStartPhraseAfterNoiseFilter ==
    Sent /\ ~ IsBlank(req)
    /\ StartSearch(StripHeadersFootersAndContinuations(req)) = None
    => Failed("NoAnchorFound")

C8_Witness ==
    /\ Sent /\ shape.kind = "tie" /\ shape.legs = <<"good1">>
    /\ StartSearch(req) = None
    /\ Failed("NoAnchorFound")

\* the text starts with the start phrase "beginning at a point"
StartsWithPhrase ==
    Len(req) >= 7 /\ SubSeq(req, 1, 7) = <<"beginning", " ", "at", " ", "a", " ", "point">>

\* the text up to the first ";" or "thence"
FirstPartWritten ==
    Upto(req, MinOf({i \in 1..Len(req) : Lower(req[i]) \in {";", "thence"}}
                    \cup {Len(req) + 1}) - 1)

\* how many times the word "from" is written in the first part
FromCount ==
    Cardinality({i \in 1..Len(FirstPartWritten) : Lower(FirstPartWritten[i]) = "from"})

\* something other than "from" is written last in the first part
NameWrittenLast ==
    LET Last(p) == p # <<>> /\ Lower(p[Len(p)]) # "from"
    IN Last(RStrip(FirstPartWritten))

\* C9: the parse fails with MissingTiePoint exactly when "from" occurs zero
\* times or two or more times in the first part; the first parts taken here
\* are those that start with the start phrase and end with a name.
C9_MissingTiePointIffNotOneFrom ==
    Sent /\ StartsWithPhrase /\ NameWrittenLast
    => (resp.err = "MissingTiePoint" <=> FromCount # 1)

\* C10: a parse fails in four ways and no other (EmptyInput, NoAnchorFound,
\* MissingTiePoint, DistanceNotFound), and the endpoint answers each with a
\* client error.  Both raises that report a missing start anchor (lines 246
\* and 341) are counted as NoAnchorFound.
C10_FourFailureKinds ==
    Sent /\ resp.status # 200
    => /\ resp.status = 400
       /\ resp.err \in {"EmptyInput", "NoAnchorFound", "AnchorLost",
                        "MissingTiePoint", "DistanceNotFound"}

\* ------------------------------------------------------------------------
\* Properties of the boundary traversal
\* ------------------------------------------------------------------------

\* C2: every azimuth handed to next_point is at least 0 and less than 360
\* degrees.
C2_AzimuthInRange ==
    \A i \in 1..Len(thetas) : thetas[i] >= 0 /\ thetas[i] < FullCircle

\* C3: with ns in {N, S}, ew in {E, W} and angle A, the azimuth is A for N/E,
\* 360 - A for N/W, 180 - A for S/E and 180 + A for S/W, each modulo 360.
C3_QuadrantFormulas ==
    \A i \in 1..Len(thetas) :
        LET b == payload.boundaries[i]
            A == b.deg * MinutesPerDegree + b.min
        IN b.ns \in {"N", "S"} /\ b.ew \in {Some("E"), Some("W")}
           => thetas[i] =
                (CASE b.ns = "N" /\ b.ew = Some("E") -> A
                   [] b.ns = "N" /\ b.ew = Some("W") -> FullCircle - A
                   [] b.ns = "S" /\ b.ew = Some("E") -> HalfCircle - A
                   [] b.ns = "S" /\ b.ew = Some("W") -> HalfCircle + A) % FullCircle

\* ------------------------------------------------------------------------
\* Properties of the metadata extractor
\* ------------------------------------------------------------------------

\* the tokens v stand in the text s, one after the other
Occurs(v, s) == \E i \in 1..(Len(s) - Len(v) + 1) : SubSeq(s, i, i + Len(v) - 1) = v

\* one of the words is written in the request
Mentions(words) == \E i \in 1..Len(req) : Lower(req[i]) \in words

\* C11: extract_title_meta gives null for the title number when no
\* title-number pattern matches the text and null for the owner when no owner
\* pattern matches, and a value it gives occurs in the text.  A text that
\* mentions neither "title" nor "tct" matches no title-number pattern, one
\* that mentions neither "owner" nor "favor" no owner pattern.
C11_NullWhenNothingMatches ==
    Sent /\ resp.status = 200
    => /\ (~ Mentions({"title", "tct"}) => resp.title_number = None)
       /\ (~ Mentions({"owner", "favor"}) => resp.owner = None)
       /\ (resp.title_number = None \/ Occurs(resp.title_number, req))
       /\ (resp.owner = None \/ Occurs(resp.owner, req))

\* C12: parse_land_title is a function of its text alone: two invocations
\* on the same text, in whatever order they and other invocations run, end in
\* the same outcome (the same error, or the same title number, owner,
\* technical description, tie point and boundaries).
C12_SameTextSameOutcome ==
    inv # <<>>
    => \A i, j \in Invocations :
          inv[i].pc = "done" /\ inv[j].pc = "done" /\ inv[i].text = inv[j].text
          => inv[i].out = inv[j].out

\* ------------------------------------------------------------------------
\* Properties of the chaining of the traversal
\* ------------------------------------------------------------------------

\* where step i starts, as <<lat, lon>>: the supplied coordinate for step 1,
\* else the vertex [lon, lat] that step i - 1 put out
StepStart(i) ==
    IF i = 1 THEN <<payload.tie_lat, payload.tie_lon>>
    ELSE <<out[i - 1][2], out[i - 1][1]>>

\* the vertex [lon, lat] of the destination of leg i from the start <<lat, lon>>
VertexFrom(start, i) ==
    LET Vertex(p) == <<p[2], p[1]>>
    IN Vertex(next_point(start[1], start[2], Azimuth(payload.boundaries[i]),
                         payload.boundaries[i].distance))

\* C13: step 1 starts from the supplied (tie_lat, tie_lon) and step i + 1
\* from the destination of step i; the i-th vertex put out is the
\* [longitude, latitude] of the destination of step i, which is leg i of the
\* payload, and the next step starts from that destination with latitude and
\* longitude in their places.
C13_StepsChained ==
    /\ \A i \in 1..Len(out) : out[i] = VertexFrom(StepStart(i), i)
    /\ gphase \in {"loop", "returned"} => curr = StepStart(Len(out) + 1)

C13_Witness ==
    /\ gphase = "returned" /\ Len(out) = 2
    /\ payload.tie_lat # payload.tie_lon
    /\ out[1][1] # out[1][2]
    /\ out[2] # out[1]

\* C14: the traversal returns as many vertices as the payload has legs, none
\* for a payload with no legs, whatever the bearings say and wherever the
\* last vertex lies.
C14_OneVertexPerLeg ==
    /\ gphase = "returned" => Len(out) = Len(payload.boundaries)
    /\ gphase = "loop" => Len(out) = gi /\ gi <= Len(payload.boundaries)

C14_Witness ==
    /\ gphase = "returned" /\ Len(out) = 2 /\ Len(payload.boundaries) = 2
    /\ payload.boundaries[1].ns = "X"
    /\ out[2] # <<payload.tie_lon, payload.tie_lat>>

\* ------------------------------------------------------------------------
\* Properties of the segmenter
\* ------------------------------------------------------------------------

Segmented == docShape.kind = "doc" /\ tdOut.pc # "called"

\* the pieces written after the first leg that are closing phrases, and
\* those that are stop markers
ClosingPieces == {"closingA", "closingB", "closingC"}
StopPieces == {"stopA", "stopB"}

\* what the document d says from its first start phrase to its first closing
\* phrase; with no closing phrase, to the piece before its first stop marker;
\* with neither, to its end
WrittenSpan(d) ==
    LET Span(C, S) ==
            IF C # {} THEN DocCore \o PiecesText(SubSeq(d.pieces, 1, MinOf(C)))
            ELSE IF S # {} THEN DocCore \o PiecesText(SubSeq(d.pieces, 1, MinOf(S) - 1))
            ELSE DocCore \o PiecesText(d.pieces) \o PostText[d.post]
    IN Span({k \in 1..Len(d.pieces) : d.pieces[k] \in ClosingPieces},
            {k \in 1..Len(d.pieces) : d.pieces[k] \in StopPieces})

\* C15: the span of the technical description, before the lines are
\* filtered, begins at the first start phrase of the noise-filtered text and
\* ends with the first closing phrase after it; with no closing phrase after
\* it the span ends before the first stop marker after the start phrase, and
\* with neither at the end of the document.  Whitespace at the two ends of
\* the span is not counted.
C15_SpanFromFirstStartToFirstEnd ==
    Segmented
    => /\ tdOut.pc = "returned"
       /\ tdOut.td_span = Some(Strip(WrittenSpan(docShape)))

C15_Witness ==
    /\ Segmented
    /\ docShape.pre = "closing" /\ docShape.pieces = <<"closingB", "closingA">>
    /\ docShape.post = "start"
    /\ tdOut.td_span = Some(DocCore \o PieceText.closingB)

\* ------------------------------------------------------------------------
\* Properties of the tie-point name
\* ------------------------------------------------------------------------

\* the name written after "from" in the tie line of the request
NameWritten == From(shape.head, Len(TieLinePrefix) + 1)

\* C16: the tie-point name returned is the text written after "from" in the
\* first part, as it is written but for punctuation at its end: nothing
\* inside it is dropped, collapsed or rewritten and it is not cut short, also
\* when it holds a run of whitespace or a line break.
C16_TiePointNameVerbatim ==
    Sent /\ shape.kind = "name"
    => /\ resp.status = 200
       /\ resp.tie_point = RStripSet(NameWritten, {" ", ",", ".", ";", ":"})

\* ------------------------------------------------------------------------
\* Properties of the distances returned
\* ------------------------------------------------------------------------

\* C17: every boundary call of a successful response, from the tie line or
\* from a corner part, has a distance strictly greater than 0.
C17_DistancesPositive ==
    Sent /\ resp.status = 200
    => \A k \in DOMAIN resp.boundaries : resp.boundaries[k].d > 0

\* ------------------------------------------------------------------------
\* Properties of fragments without a bearing
\* ------------------------------------------------------------------------

\* C18: for a fragment in which no bearing pattern matches (no degree marker
\* between the degree value and the minute value), parse_segment returns an
\* empty bearing and an empty distance and raises no error, with or without
\* a distance token in the fragment; parse_land_title skips such a corner
\* part and returns the calls of the other parts unchanged.
C18_NoBearingSkipped ==
    /\ Tokenized /\ fragShape.marker = "blank"
       => fragOut = [b |-> None, d |-> None, err |-> ""]
    /\ Sent /\ shape.kind = "legs" /\ LegsAmong(PlainLegs \cup NoBearingLegs)
       => /\ resp.status = 200
          /\ resp.boundaries = CallsOf(SelectSeq(shape.legs, LAMBDA l : l \notin NoBearingLegs))

C18_Witness ==
    /\ Sent /\ shape.kind = "legs" /\ shape.legs = <<"unmarked", "good1">>
    /\ resp.status = 200 /\ resp.boundaries = <<LegCall.good1>>

\* ------------------------------------------------------------------------
\* Properties of logout
\* ------------------------------------------------------------------------

\* the rows the cookie of the last request is the refresh token of
RowsPresented ==
    {k \in DOMAIN refresh_tokens :
        /\ last.cookie # None
        /\ last.cookie[1].type = "refresh"
        /\ refresh_tokens[k].jti = last.cookie[1].jti}

\* logout answers ok and deletes the cookie, whatever the cookie, and the
\* refresh token presented is revoked afterwards
LogoutSucceeds ==
    last.op = "logout"
    => /\ last.status = 200
       /\ last.set_cookie = <<"delete">>
       /\ \A k \in RowsPresented : refresh_tokens[k].is_revoked

\* a refresh with a token that was presented to logout before is rejected
RefreshAfterLogoutRejected ==
    last.op = "refresh" /\ (\E k \in RowsPresented : refresh_tokens[k].jti \in loggedOut)
    => last.status = 401 /\ last.set_cookie = <<"keep">>

\* a logout that follows a logout with the same cookie, or with none as the
\* first one deleted it, leaves the rows as they are
SecondLogoutChangesNothing ==
    last.op = "logout" /\ last'.op = "logout" /\ last'.cookie \in {last.cookie, None}
    => refresh_tokens' = refresh_tokens

\* C20: logout is idempotent and always succeeds: with an absent, invalid or
\* valid refresh cookie it answers ok and deletes the cookie; with a valid
\* cookie the refresh token presented ends revoked and a later refresh with
\* it is rejected; a second logout leaves the refresh-token rows exactly as
\* the first one left them.
C20_LogoutIdempotent ==
    /\ [](LogoutSucceeds /\ RefreshAfterLogoutRejected)
    /\ [][SecondLogoutChangesNothing]_vars

C20_Witness ==
    /\ last.op = "refresh" /\ last.status = 401
    /\ last.cookie = Some(create_refresh_token(1, 1))
    /\ 1 \in loggedOut
    /\ Len(refresh_tokens) = 2 /\ refresh_tokens[1].is_revoked /\ refresh_tokens[1].reused_at

\* ------------------------------------------------------------------------
\* Properties of the one-time codes
\* ------------------------------------------------------------------------

\* the change_mobile rows of user u that are not used
ActiveChangeCodes(u) ==
    {k \in OtpsOf(otp_codes, u, "change_mobile") : ~otp_codes[k].is_used}

\* a step that changes a user's mobile number sets it to the number the
\* user's newest change_mobile code was issued for
OnlyNewestCodeConfirms ==
    \A u \in DOMAIN mobile :
        mobile'[u] # mobile[u]
        => otp_codes[Newest(OtpsOf(otp_codes, u, "change_mobile"))].context_mobile = mobile'[u]

\* C21: issuing a change-mobile code invalidates the user's older ones: a
\* user has at most one unused change_mobile code, the newest, so a code
\* issued for an earlier number is never confirmed once a newer code has been
\* issued.
C21_OneActiveChangeCode ==
    /\ [](\A u \in DOMAIN mobile : Cardinality(ActiveChangeCodes(u)) <= 1)
    /\ [][OnlyNewestCodeConfirms]_vars

\* ------------------------------------------------------------------------
\* Properties of concurrent refreshes
\* ------------------------------------------------------------------------

\* the requests that presented the refresh token of jti and got a new pair
Rotated(jti) ==
    {r \in DOMAIN racers :
        /\ racers[r].cookie # None
        /\ racers[r].cookie[1].type = "refresh" /\ racers[r].cookie[1].jti = jti
        /\ racers[r].status = 200}

\* C22: a refresh token is single-use: of the concurrent /refresh requests
\* that present the same jti, at most one gets a new token pair, in every
\* interleaving, and every other one is answered 401.
C22_RefreshSingleUse ==
    \A k \in DOMAIN refresh_tokens : Cardinality(Rotated(refresh_tokens[k].jti)) <= 1

\* ------------------------------------------------------------------------
\* Properties of the bearings outside the four quadrants
\* ------------------------------------------------------------------------

\* the bearing is N/E, N/W or S/E
InFirstThreeBranches(b) ==
    \/ b.ns = "N" /\ b.ew = Some("E")
    \/ b.ns = "N" /\ b.ew = Some("W")
    \/ b.ns = "S" /\ b.ew = Some("E")

\* C23: the conversion rejects no bearing: a bearing that is not N/E, N/W or
\* S/E, such as one with ew absent (ns S or N) or with ns neither N nor S,
\* gets the azimuth 180 + angle and its leg is traversed like any other:
\* every leg passed has an azimuth and a vertex.
C23_OtherBearingsTakeLastBranch ==
    /\ Len(thetas) = gi /\ Len(out) = gi
    /\ \A i \in 1..Len(thetas) :
          ~InFirstThreeBranches(payload.boundaries[i])
          => thetas[i] = HalfCircle + payload.boundaries[i].deg * MinutesPerDegree
                                    + payload.boundaries[i].min

C23_Witness ==
    /\ gphase = "returned" /\ Len(out) = 2
    /\ payload.boundaries[1].ns = "X"
    /\ payload.boundaries[2].ns = "N" /\ payload.boundaries[2].ew = None
    /\ payload.boundaries[2].deg = 45
    /\ thetas[2] = HalfCircle + 45 * MinutesPerDegree + payload.boundaries[2].min

\* ------------------------------------------------------------------------
\* Properties of the non-boundary line filter
\* ------------------------------------------------------------------------

\* the span that the filter is given for the request text, None when the
\* slice raises
SpanOfRequest == SliceBetweenAnchors(StripHeadersFootersAndContinuations(req))

\* C24: the non-boundary line filter never removes the start anchor text:
\* the start phrase found in the span is found again in the filtered text,
\* so that parse_land_title never fails to re-locate it (line 341).
C24_StartAnchorSurvivesFilter ==
    Sent /\ SpanOfRequest # None
    => /\ StartSearch(FilterIntrudingNonTdLines(SpanOfRequest[1])) # None
       /\ ~ Failed("AnchorLost")

\* the lines of the span that the filter is given
SpanLines == SplitLines(tdOut.td_span[1])

\* the line matches STOP_MARKERS_RE
StopSearchLine(line) == \E i \in 1..Len(line) : StopAt(line, i)

\* the filtered text is what is kept of the lines before line k
TruncatedAt(k) ==
    tdOut.td_final = Some(Strip(JoinLines(KeptLines(SubSeq(SpanLines, 1, k - 1)))))

\* the filtered text holds fewer lines than k
FewerLinesThan(k) ==
    Cardinality({i \in 1..Len(tdOut.td_final[1]) : tdOut.td_final[1][i] = "\n"}) + 1 < k

\* the lines of the span in which a stop marker occurs
StopLines == {i \in 1..Len(SpanLines) : StopSearchLine(Strip(SpanLines[i]))}

\* the lines of the span in which a stop marker and no keep token occurs
BareStopLines == {i \in StopLines : ~ KeepSearch(Strip(SpanLines[i]))}

\* C25: whenever a line of the span matches a stop marker, the filter
\* truncates there: the filtered text holds neither that line nor any line
\* after it.
C25_StopLineTruncates ==
    tdOut.pc = "returned" /\ StopLines # {}
    => TruncatedAt(MinOf(StopLines)) /\ FewerLinesThan(MinOf(StopLines))

\* C25 amended: whenever a line of the span matches a stop marker and holds
\* no keep token, the filter truncates at the first such line: the filtered
\* text holds neither that line nor any line after it. A line in which a
\* keep token occurs is kept, stop marker or not.
C25_BareStopLineTruncates ==
    tdOut.pc = "returned" /\ BareStopLines # {}
    => TruncatedAt(MinOf(BareStopLines)) /\ FewerLinesThan(MinOf(BareStopLines))

C25_Witness ==
    /\ tdOut.pc = "returned" /\ docShape.pre = "none"
    /\ docShape.pieces = <<"stopA", "closingC">>
    /\ BareStopLines = {2} /\ Len(SpanLines) = 3
    /\ tdOut.td_final = Some(DocCore)

\* ------------------------------------------------------------------------
\* Properties of the noise filter
\* ------------------------------------------------------------------------

NonBlankLines(ls) == SelectSeq(ls, LAMBDA l : ~ IsBlank(l))

\* the lines of the text that are neither blank nor a page header or footer,
\* without their continuation notes
RetainedLines(text) == NonBlankLines(CleanLines(SplitLines(text)))

\* the line without the hyphen it ends with
WithoutHyphen(line) == Upto(RStrip(line), Len(RStrip(line)) - 1)

\* every line that ends with a hyphen merged with the line after it
RECURSIVE MergeHyphenated(_)
MergeHyphenated(ls) ==
    IF Len(ls) <= 1 THEN ls
    ELSE IF EndsWithHyphen(ls[1])
         THEN MergeHyphenated(<<Norm(WithoutHyphen(ls[1]) \o LStrip(ls[2]))>>
                              \o Tail(Tail(ls)))
         ELSE <<ls[1]>> \o MergeHyphenated(Tail(ls))

\* C26: in the noise filter every retained line that ends with a hyphen is
\* merged with the next retained line, the hyphen removed and the leading
\* whitespace of the next line removed, also when header, footer or blank
\* lines stood between the two and for runs of several lines that end with a
\* hyphen: the lines of the filtered text are the retained lines so merged.
C26_HyphenatedLinesMerged ==
    Sent
    => NonBlankLines(SplitLines(StripHeadersFootersAndContinuations(req)))
       = MergeHyphenated(RetainedLines(req))

\* ------------------------------------------------------------------------
\* Properties of the one-time codes
\* ------------------------------------------------------------------------

\* no row counts more attempts than it allows
AttemptsWithinLimit ==
    \A k \in DOMAIN otp_codes : otp_codes[k].attempts_used <= otp_codes[k].max_attempts

\* the newest unused code of user u for the purpose has used up its attempts
AtLimit(u, purpose) ==
    /\ NewestActive(otp_codes, u, purpose) # 0
    /\ TooManyAttempts(otp_codes[NewestActive(otp_codes, u, purpose)])

\* the step answers 400 and leaves that code used
RejectedAndUsed(u, purpose) ==
    /\ acctLast'.status = 400
    /\ otp_codes'[NewestActive(otp_codes, u, purpose)].is_used

\* a confirm of any kind for a user whose newest unused code has used up its
\* attempts is rejected and marks the code used
ConfirmAtLimitRejects ==
    /\ \A m \in Mobiles, code \in Guesses :
          ConfirmVerification(m, code) /\ UserByMobile(mobile, m) # 0
          /\ AtLimit(UserByMobile(mobile, m), "register")
          => RejectedAndUsed(UserByMobile(mobile, m), "register")
    /\ \A u \in Callers, m \in Mobiles, code \in Guesses :
          ConfirmChangeMobile(u, m, code) /\ AtLimit(u, "change_mobile")
          => RejectedAndUsed(u, "change_mobile")

\* the same of the confirms that get as far as the code: the user of
\* confirm_verification is not verified yet, and the new mobile number of
\* confirm_change_mobile is the one the code was requested for
ConfirmOfCodeAtLimitRejects ==
    /\ \A m \in Mobiles, code \in Guesses :
          ConfirmVerification(m, code) /\ UserByMobile(mobile, m) # 0
          /\ ~ is_verified[UserByMobile(mobile, m)]
          /\ AtLimit(UserByMobile(mobile, m), "register")
          => RejectedAndUsed(UserByMobile(mobile, m), "register")
    /\ \A u \in Callers, m \in Mobiles, code \in Guesses :
          ConfirmChangeMobile(u, m, code) /\ AtLimit(u, "change_mobile")
          /\ otp_codes[NewestActive(otp_codes, u, "change_mobile")].context_mobile = m
          => RejectedAndUsed(u, "change_mobile")

\* a used code stays used, and no attempt is counted on it any more
UsedCodeNeverAccepted ==
    \A k \in DOMAIN otp_codes :
        otp_codes[k].is_used
        => /\ k \in DOMAIN otp_codes'
           /\ otp_codes'[k].is_used
           /\ otp_codes'[k].attempts_used = otp_codes[k].attempts_used

\* C27 as claimed: attempts_used never exceeds max_attempts; a confirm once
\* attempts_used has reached max_attempts is rejected and marks the code
\* used, whatever the code submitted; a used code is never accepted again.
C27_GuessingBounded ==
    /\ []AttemptsWithinLimit
    /\ [][ConfirmAtLimitRejects]_vars
    /\ [][UsedCodeNeverAccepted]_vars

\* C27 amended: attempts_used never exceeds max_attempts; a confirm that gets
\* as far as the code (confirm_verification for a user not yet verified,
\* confirm_change_mobile with the mobile number the code was requested for)
\* once attempts_used has reached max_attempts is rejected and marks the code
\* used, whatever the code submitted; a used code is never accepted again.
C27_GuessingBoundedOnTheCode ==
    /\ []AttemptsWithinLimit
    /\ [][ConfirmOfCodeAtLimitRejects]_vars
    /\ [][UsedCodeNeverAccepted]_vars

C27_Witness ==
    /\ Len(otp_codes) = 1 /\ otp_codes[1].purpose = "register"
    /\ otp_codes[1].attempts_used = OTP_MAX_ATTEMPTS
    /\ otp_codes[1].is_used /\ otp_codes[1].age <= OTP_TTL_MINUTES
    /\ ~ is_verified[1]
    /\ acctLast = AcctAnswer("confirm_verification", 400)

\* ------------------------------------------------------------------------
\* Properties of the email-verification tokens
\* ------------------------------------------------------------------------

\* the tokens of user u that are not used
UnusedTokens(u) ==
    {k \in DOMAIN email_verify_tokens :
        email_verify_tokens[k].user_id = u /\ ~ email_verify_tokens[k].is_used}

\* a step that issues a token leaves every earlier token of its user used
IssueUsesEarlierTokens ==
    Len(email_verify_tokens') = Len(email_verify_tokens) + 1
    => \A k \in DOMAIN email_verify_tokens :
          email_verify_tokens[k].user_id
              = email_verify_tokens'[Len(email_verify_tokens')].user_id
          => email_verify_tokens'[k].is_used

\* the token is the one issued last to its user
MostRecentToken(token) ==
    \A k \in DOMAIN email_verify_tokens :
        email_verify_tokens[k].user_id = email_verify_tokens[token].user_id => k <= token

\* email_verify_confirm accepts only a token that is the most recent one of
\* its user, is not used and has not expired, and leaves it used
AcceptsOnlyFreshToken ==
    \A token \in 0..MaxEmailTokens :
        EmailVerifyConfirm(token) /\ acctLast'.status = 302
        => /\ token \in DOMAIN email_verify_tokens
           /\ ~ email_verify_tokens[token].is_used
           /\ email_verify_tokens[token].age <= EMAIL_TOKEN_TTL_MINUTES
           /\ MostRecentToken(token)
           /\ email_verify_tokens'[token].is_used

\* a user becomes verified only in a step that uses up a token of the user
\* that has not expired
VerifiedOnlyByToken ==
    \A u \in DOMAIN is_verified :
        ~ is_verified[u] /\ is_verified'[u]
        => \E k \in UnusedTokens(u) :
              /\ email_verify_tokens[k].age <= EMAIL_TOKEN_TTL_MINUTES
              /\ MostRecentToken(k)
              /\ email_verify_tokens'[k].is_used

\* a used token stays used
UsedTokenStaysUsed ==
    \A k \in DOMAIN email_verify_tokens :
        email_verify_tokens[k].is_used
        => k \in DOMAIN email_verify_tokens' /\ email_verify_tokens'[k].is_used

\* C28: only the most recent email-verification token of a user can verify
\* the account: each issue (register, resend, login of an unverified user)
\* marks the earlier unused tokens of the user used, a user has at most one
\* unused token at any time, and email_verify_confirm accepts a token at
\* most once and never after it expired.
C28_OnlyMostRecentTokenVerifies ==
    /\ [](\A u \in DOMAIN email : Cardinality(UnusedTokens(u)) <= 1)
    /\ [][IssueUsesEarlierTokens]_vars
    /\ [][AcceptsOnlyFreshToken]_vars
    /\ [][VerifiedOnlyByToken]_vars
    /\ [][UsedTokenStaysUsed]_vars

C28_Witness ==
    /\ Len(email_verify_tokens) = 3
    /\ \A k \in 1..3 : email_verify_tokens[k].user_id = 1 /\ email_verify_tokens[k].is_used
    /\ email_verify_tokens[1].age > EMAIL_TOKEN_TTL_MINUTES
    /\ email_verify_tokens[3].age <= EMAIL_TOKEN_TTL_MINUTES
    /\ is_verified[1]
    /\ last.op = "login" /\ last.status = 403
    /\ acctLast = AcctAnswer("email_verify_confirm", 302)

\* ------------------------------------------------------------------------
\* Properties of a refresh that fails
\* ------------------------------------------------------------------------

\* the cookie is the refresh token of a row that is not revoked
ValidUnrevoked(cookie) ==
    /\ cookie # None /\ cookie[1].type = "refresh"
    /\ FirstRow(refresh_tokens, cookie[1].jti) # 0
    /\ ~ refresh_tokens[FirstRow(refresh_tokens, cookie[1].jti)].is_revoked

\* the user a refresh token names is missing or inactive
NoActiveUser(cookie) ==
    cookie[1].sub \notin DOMAIN is_active \/ ~ is_active[cookie[1].sub]

\* the row of the cookie is as it was, and no row was added
StoreUnchanged(cookie) ==
    /\ refresh_tokens' = refresh_tokens
    /\ ~ refresh_tokens'[FirstRow(refresh_tokens, cookie[1].jti)].is_revoked
    /\ ~ refresh_tokens'[FirstRow(refresh_tokens, cookie[1].jti)].rotated_at
    /\ Len(refresh_tokens') = Len(refresh_tokens)

FailedRefreshChangesNothing ==
    \A cookie \in Cookies(refresh_tokens) :
        Refresh(cookie) /\ ValidUnrevoked(cookie) /\ NoActiveUser(cookie)
        => /\ last'.status = 401 /\ last'.set_cookie = <<"keep">>
           /\ StoreUnchanged(cookie)

\* C29: a refresh that fails leaves the token store as it was: when a valid
\* token that is not revoked is presented and its user is missing or
\* inactive, the request is answered 401, the token stays unrevoked with no
\* rotation timestamp, and no new token is created.
C29_FailedRefreshLeavesStore == [][FailedRefreshChangesNothing]_vars

C29_Witness ==
    /\ last.op = "refresh" /\ last.status = 401
    /\ ValidUnrevoked(last.cookie) /\ NoActiveUser(last.cookie)
    /\ Len(refresh_tokens) = 1 /\ ~ refresh_tokens[1].rotated_at

\* ------------------------------------------------------------------------
\* Properties of the access to properties
\* ------------------------------------------------------------------------

\* the handlers that work on one property
PropertyOps ==
    {"get_property", "replace_boundaries", "add_images", "add_reports",
     "list_property_reports", "download_report"}

\* the rows and files of the properties
PropertyStore == <<properties, property_reports, files>>

\* a request on a property that succeeds is one of its owner
SucceedsOnlyForOwner ==
    propLast'.op \in PropertyOps /\ propLast'.status = 200
    => /\ propLast'.property_id \in DOMAIN properties
       /\ properties[propLast'.property_id].user_id = propLast'.caller

\* a request of a user on a property of another user is answered 403 and
\* changes nothing
OtherUsersRefused ==
    /\ propLast'.op \in PropertyOps
    /\ propLast'.property_id \in DOMAIN properties
    /\ properties[propLast'.property_id].user_id # propLast'.caller
    => propLast'.status = 403 /\ PropertyStore' = PropertyStore

\* the store changes only in a request of the owner of the property changed,
\* and no property changes hands
ChangedOnlyByOwner ==
    /\ \A p \in DOMAIN properties :
          /\ p \in DOMAIN properties'
          /\ properties'[p].user_id = properties[p].user_id
          /\ properties'[p] # properties[p]
             => propLast'.caller = properties[p].user_id /\ propLast'.property_id = p
    /\ \A r \in DOMAIN property_reports' :
          r \notin DOMAIN property_reports
          => /\ property_reports'[r].property_id = propLast'.property_id
             /\ properties[propLast'.property_id].user_id = propLast'.caller

\* create_property makes no property of a user other than the caller
CreatesOnlyForCaller ==
    \A p \in DOMAIN properties' :
        p \notin DOMAIN properties
        => propLast'.op = "create_property" /\ properties'[p].user_id = propLast'.caller

\* C30: access to a property is owner-only: a read, a replacement of the
\* boundaries, an addition of images or reports, a listing of the reports or
\* a download of a report succeeds only for the user the property belongs
\* to; for any other user it fails with 403 and leaves the property, its
\* boundaries, images and reports as they were; and create_property never
\* makes a property of a user other than the caller.
C30_OwnerOnly ==
    /\ [][SucceedsOnlyForOwner]_vars
    /\ [][OtherUsersRefused]_vars
    /\ [][ChangedOnlyByOwner]_vars
    /\ [][CreatesOnlyForCaller]_vars

C30_Witness ==
    /\ Len(properties) = 1 /\ properties[1].user_id = 1
    /\ properties[1].boundaries # <<>> /\ properties[1].images = 1
    /\ Len(property_reports) = 1 /\ property_reports[1].property_id = 1
    /\ propLast = PropAnswer("replace_boundaries", 2, 1, 403)

=============================================================================
